---- MODULE Spec2Model ----
(***************************************************************************)
(* Socket.IO / Engine.IO client core: the engine decoder, the socket       *)
(* packet parser and assembler, the Receiver's dispatch, the callback      *)
(* table, the emit path and the driver loop (process_websocket).           *)
(*                                                                         *)
(* Strings on the wire are modelled by the pieces the code takes them      *)
(* apart into: an engine text frame is its first byte and the rest, a      *)
(* socket message is the capture groups of DESERIALIZE_RE plus the JSON    *)
(* array of its arguments.  Option<T> is a sequence of length 0 or 1.      *)
(***************************************************************************)
EXTENDS Integers, Sequences, FiniteSets, TLC

\* ------------------------------------------------------------------ bounds
MaxBatches == 2     \* batches put on the outbound queue in one run
MaxEmits == 2       \* emits with an ack callback in one run (caps Client.next_id)
MaxCloses == 2      \* calls of Connection::close in one run
MaxArgs == 2        \* serialize_arg calls on one packet builder
MaxAttachments == 2 \* attachments of the packet whose argument is resolved
MaxWaiters == 2     \* Waiters of one flag: the one flag() returns and its clones
MaxPolls == 3       \* polls of the Waiters of one flag that no wake asked for
MaxSenders == 2     \* clones of Connection::sender() alive at once

\* ------------------------------------------------------------------ options
None == <<>>
Some(x) == <<x>>
IsSome(o) == o /= <<>>
IsNone(o) == o = <<>>
Get(o) == o[1]
UnwrapOr(o, d) == IF o = <<>> THEN d ELSE o[1]

\* ------------------------------------------------------------------ JSON argument values
JStr(s) == [j |-> "str", s |-> s, n |-> 0, items |-> <<>>]
JNum(n) == [j |-> "num", s |-> "", n |-> n, items |-> <<>>]
JPlaceholder(k) == [j |-> "ph", s |-> "", n |-> k, items |-> <<>>]
JArr(xs) == [j |-> "arr", s |-> "", n |-> 0, items |-> xs]

JBytes(data) == [j |-> "bytes", s |-> data, n |-> 0, items |-> <<>>]

\* The placeholder indices reachable from one JSON value, as the walk of
\* fill_placeholders_value meets them (arrays are descended into, an object
\* with the key _placeholder is a leaf carrying num).
RECURSIVE PlaceholderNums(_)
PlaceholderNums(v) ==
    IF v.j = "ph" THEN {v.n}
    ELSE IF v.j = "arr" THEN UNION {PlaceholderNums(v.items[i]) : i \in DOMAIN v.items}
    ELSE {}

\* Result<Value, args::Error>
ValOk(v) == [err |-> "", value |-> v]
ValErr(e, v) == [err |-> e, value |-> v]

\* The placeholder leaf with the index clamped into range instead of checked.
Mutant_FillPlaceholder(v, buffers) ==
    IF v.n < Len(buffers) THEN ValOk(JBytes(buffers[v.n + 1]))
    ELSE ValOk(JBytes(buffers[Len(buffers)]))

\* The tail of fill_placeholders_value: buffers.get(idx), or the range error.
FillPlaceholder(v, buffers) ==
    IF v.n < Len(buffers) THEN ValOk(JBytes(buffers[v.n + 1]))
    ELSE ValErr("PlaceholderIndexOutOfRange", v)

RECURSIVE FillPlaceholdersValue(_, _)
FillPlaceholdersValue(v, buffers) ==
    IF v.j = "arr" THEN
        LET rs == [i \in DOMAIN v.items |-> FillPlaceholdersValue(v.items[i], buffers)]
            bad == {i \in DOMAIN rs : rs[i].err /= ""}
        IN IF bad /= {}
           THEN ValErr(rs[CHOOSE i \in bad : \A k \in bad : i <= k].err, v)
           ELSE ValOk(JArr([i \in DOMAIN rs |-> rs[i].value]))
    ELSE IF v.j = "ph" THEN FillPlaceholder(v, buffers)
    ELSE ValOk(v)

\* Arg::to_json_value: placeholders are filled only when the packet has attachments
ToJsonValue(arg, attachments) ==
    IF Len(attachments) > 0 THEN FillPlaceholdersValue(arg, attachments) ELSE ValOk(arg)

\* The type T an argument is deserialised into: "Value" is serde_json::Value
\* (deserialize_any, arrays descended into), "Bytes" is &[u8] (deserialize_bytes).
\* serde_json::from_str::<T>(arg): an object is a map to Value, and not bytes.
JsonFromStr(arg, target) ==
    IF target = "Value" THEN ValOk(arg)
    ELSE IF arg.j = "str" THEN ValOk(JBytes(arg.s))
    ELSE ValErr("JsonDeError: invalid type", arg)

\* visit_map with the index wrapped round instead of checked
Mutant_VisitPlaceholder(v, buffers) ==
    ValOk(JBytes(buffers[(v.n % Len(buffers)) + 1]))

\* BinaryVisitor::visit_map on an object whose first key is _placeholder
VisitPlaceholder(v, buffers) ==
    IF v.n < Len(buffers) THEN ValOk(JBytes(buffers[v.n + 1]))
    ELSE ValErr("JsonDeError: Placeholder num out of range", v)

\* deserialize_attachments::deserialize: T::deserialize(BinaryDeserializer)
RECURSIVE DeserializeAttachments(_, _, _)
DeserializeAttachments(v, buffers, target) ==
    IF v.j = "ph" THEN VisitPlaceholder(v, buffers)
    ELSE IF target = "Bytes" THEN
        IF v.j = "str" THEN ValOk(JBytes(v.s)) ELSE ValErr("JsonDeError: invalid type", v)
    ELSE IF v.j = "arr" THEN
        LET rs == [i \in DOMAIN v.items |-> DeserializeAttachments(v.items[i], buffers, "Value")]
            bad == {i \in DOMAIN rs : rs[i].err /= ""}
        IN IF bad /= {}
           THEN ValErr(rs[CHOOSE i \in bad : \A k \in bad : i <= k].err, v)
           ELSE ValOk(JArr([i \in DOMAIN rs |-> rs[i].value]))
    ELSE ValOk(v)

\* Arg::deserialize::<T>
ArgDeserialize(arg, attachments, target) ==
    IF Len(attachments) > 0 THEN DeserializeAttachments(arg, attachments, target)
    ELSE JsonFromStr(arg, target)

\* ------------------------------------------------------------------ wire values
\* A socket message as DESERIALIZE_RE sees it: re is whether the pattern
\* matches, kind is group 1, att group 3, ns group 5, id group 6, args group 7
\* (None when the group is absent, Some(<<>>) for "[]"), jsonOk whether group 7
\* parses as a JSON array.
SockText(kind, att, ns, id, args, jsonOk) ==
    [re |-> TRUE, kind |-> kind, att |-> att, ns |-> ns, id |-> id, args |-> args, jsonOk |-> jsonOk]
NoMatch == [re |-> FALSE, kind |-> "", att |-> None, ns |-> None, id |-> None, args |-> None, jsonOk |-> FALSE]

\* tungstenite::Message.  A Text frame is its first byte (first = "" for the
\* empty string) and the rest: for '0' whether the rest parses as an Open
\* object (json), for '4' the socket message (sock).  A Binary frame is its
\* first byte and the rest (data).
WsText(first, json, sock) == [t |-> "Text", first |-> first, json |-> json, sock |-> sock, data |-> ""]
WsBinary(first, data) == [t |-> "Binary", first |-> first, json |-> FALSE, sock |-> NoMatch, data |-> data]
WsPing == [t |-> "Ping", first |-> "", json |-> FALSE, sock |-> NoMatch, data |-> ""]
WsPong == [t |-> "Pong", first |-> "", json |-> FALSE, sock |-> NoMatch, data |-> ""]
WsClose == [t |-> "Close", first |-> "", json |-> FALSE, sock |-> NoMatch, data |-> ""]

\* engine::Message and engine::Packet
EMText(sock) == [t |-> "Text", sock |-> sock, data |-> ""]
EMBinary(data) == [t |-> "Binary", sock |-> NoMatch, data |-> data]
EPacket(p) == [p |-> p, m |-> EMBinary("")]
EMessage(m) == [p |-> "Message", m |-> m]

\* ------------------------------------------------------------------ engine decoder
DecodeOk(pkt, st) == [err |-> "", pkt |-> pkt, state |-> st]
DecodeErr(e, st) == [err |-> e, pkt |-> EPacket("None"), state |-> st]


\* The '4' arm of decode_text: no check of the lifecycle state.
DecodeMessageText(st, text) ==
    DecodeOk(EMessage(EMText(text.sock)), st)

\* The '1' arm made legal in Initial.
Mutant_DecodeCloseText(st) ==
    DecodeOk(EPacket("Close"), "Closed")

\* The '1' arm of decode_text.
DecodeCloseText(st) ==
    IF st = "Initial" THEN DecodeErr("MessageBeforeOpen", st)
    ELSE DecodeOk(EPacket("Close"), "Closed")


\* The '0' arm with the state set before the JSON is parsed.
Mutant_DecodeOpenText(st, text) ==
    IF st /= "Initial" THEN DecodeErr("SecondOpen", st)
    ELSE IF ~text.json THEN DecodeErr("JsonError", "Active")
    ELSE DecodeOk(EPacket("Open"), "Active")

\* The '0' arm of decode_text.
DecodeOpenText(st, text) ==
    IF st /= "Initial" THEN DecodeErr("SecondOpen", st)
    ELSE IF ~text.json THEN DecodeErr("JsonError", st)
    ELSE DecodeOk(EPacket("Open"), "Active")

DecodeText(st, text) ==
    IF text.first = "" THEN DecodeErr("InvalidMessage", st)
    ELSE IF text.first = "0" THEN DecodeOpenText(st, text)
    ELSE IF text.first = "1" THEN DecodeCloseText(st)
    ELSE IF text.first = "2" THEN
        IF st = "Initial" THEN DecodeErr("MessageBeforeOpen", st)
        ELSE DecodeOk(EPacket("Ping"), st)
    ELSE IF text.first = "3" THEN
        IF st = "Initial" THEN DecodeErr("MessageBeforeOpen", st)
        ELSE DecodeOk(EPacket("Pong"), st)
    ELSE IF text.first = "4" THEN DecodeMessageText(st, text)
    ELSE DecodeErr("InvalidMessage", st)

DecodeBinary(st, msg) ==
    IF st = "Initial" THEN DecodeErr("MessageBeforeOpen", st)
    ELSE IF msg.first = "" THEN DecodeErr("InvalidMessage", st)
    ELSE IF msg.first /= "4" THEN DecodeErr("InvalidMessage", st)
    ELSE DecodeOk(EMessage(EMBinary(msg.data)), st)

\* decode without the check of the Closed state.
Mutant_Decode(st, msg) ==
    IF msg.t \in {"Ping", "Pong", "Close"} THEN DecodeErr("WrongMessageType", st)
    ELSE IF msg.t = "Text" THEN DecodeText(st, msg)
    ELSE DecodeBinary(st, msg)

Decode(st, msg) ==
    IF st = "Closed" THEN DecodeErr("MessageAfterClose", st)
    ELSE IF msg.t \in {"Ping", "Pong", "Close"} THEN DecodeErr("WrongMessageType", st)
    ELSE IF msg.t = "Text" THEN DecodeText(st, msg)
    ELSE DecodeBinary(st, msg)

\* ------------------------------------------------------------------ socket parser
ProtocolKindOf(d) ==
    CASE d = "0" -> "Connect"
      [] d = "1" -> "Disconnect"
      [] d = "2" -> "Event"
      [] d = "3" -> "Ack"
      [] d = "5" -> "BinaryEvent"
      [] d = "6" -> "BinaryAck"

MkParse(text) ==
    [message |-> text, kind |-> ProtocolKindOf(text.kind), attachments |-> text.att,
     namespace |-> text.ns, id |-> text.id, args |-> UnwrapOr(text.args, <<>>)]
NoParse ==
    [message |-> NoMatch, kind |-> "", attachments |-> None, namespace |-> None, id |-> None, args |-> <<>>]

MkPacket(parse, kind, id, args, attachments) ==
    [message |-> parse.message, kind |-> kind, namespace |-> parse.namespace, id |-> id,
     args |-> args, attachments |-> attachments]
NoPacket ==
    [message |-> NoMatch, kind |-> "", namespace |-> None, id |-> None, args |-> <<>>, attachments |-> <<>>]

\* Result<Parse, Error>
ParseText(text) ==
    IF ~text.re THEN [err |-> "InvalidMessage", parse |-> NoParse]
    ELSE IF IsSome(text.args) /\ ~text.jsonOk THEN [err |-> "InvalidDataJson", parse |-> NoParse]
    ELSE [err |-> "", parse |-> MkParse(text)]

\* Result<DeserializeResult, Error>: tag is "Packet" or "DataNeeded"
ResPacket(p) == [err |-> "", tag |-> "Packet", packet |-> p, partial |-> NoParse]
ResNeeded(parse) == [err |-> "", tag |-> "DataNeeded", packet |-> NoPacket, partial |-> parse]
ResErr(e) == [err |-> e, tag |-> "", packet |-> NoPacket, partial |-> NoParse]

DeserializeDataless(parse, kind) ==
    IF IsSome(parse.attachments) \/ IsSome(parse.id) \/ parse.args /= <<>>
    THEN ResErr("InvalidExtraData")
    ELSE ResPacket(MkPacket(parse, kind, None, <<>>, <<>>))

\* deserialize_event without the comparison of the attachment counts.
Mutant_DeserializeEvent(parse, kind, attachments) ==
    IF (kind = "Ack" /\ IsNone(parse.id)) \/ parse.args = <<>> THEN ResErr("MissingData")
    ELSE ResPacket(MkPacket(parse, kind, parse.id, parse.args, attachments))

DeserializeEvent(parse, kind, attachments) ==
    IF (kind = "Ack" /\ IsNone(parse.id)) \/ parse.args = <<>> THEN ResErr("MissingData")
    ELSE IF Len(attachments) /= UnwrapOr(parse.attachments, 0) THEN ResErr("InvalidAttachmentCount")
    ELSE ResPacket(MkPacket(parse, kind, parse.id, parse.args, attachments))

DeserializeBinary(parse, kind) ==
    IF IsSome(parse.attachments) THEN
        IF Get(parse.attachments) = 0 THEN DeserializeEvent(parse, kind, <<>>)
        ELSE ResNeeded(parse)
    ELSE ResErr("MissingData")

DeserializeText(text) ==
    LET r == ParseText(text) IN
    IF r.err /= "" THEN ResErr(r.err)
    ELSE LET parse == r.parse IN
         CASE parse.kind = "Connect" -> DeserializeDataless(parse, "Connect")
           [] parse.kind = "Disconnect" -> DeserializeDataless(parse, "Disconnect")
           [] parse.kind = "Event" -> DeserializeEvent(parse, "Event", <<>>)
           [] parse.kind = "Ack" -> DeserializeEvent(parse, "Ack", <<>>)
           [] parse.kind = "BinaryEvent" -> DeserializeBinary(parse, "Event")
           [] parse.kind = "BinaryAck" -> DeserializeBinary(parse, "Ack")

\* deserialize with a binary message taken for an attachment that came early
Mutant_Deserialize(msg) ==
    IF msg.t = "Text" THEN DeserializeText(msg.sock)
    ELSE ResNeeded(NoParse)

Deserialize(msg) ==
    IF msg.t = "Text" THEN DeserializeText(msg.sock)
    ELSE ResErr("NonAttachmentBinary")

\* attachments is the Vec<EngineMessage> the Receiver collected
DeserializePartial(partial, attachments) ==
    IF \E i \in DOMAIN attachments : attachments[i].t = "Text" THEN ResErr("TextAttachment")
    ELSE LET datas == [i \in DOMAIN attachments |-> attachments[i].data] IN
         IF partial.kind = "BinaryEvent" THEN DeserializeEvent(partial, "Event", datas)
         ELSE DeserializeEvent(partial, "Ack", datas)

\* ------------------------------------------------------------------ text
\* A string is the sequence of its characters.
Digits == <<"0", "1", "2", "3", "4", "5", "6", "7", "8", "9">>
IsDigit(c) == \E d \in DOMAIN Digits : Digits[d] = c
DigitVal(c) == (CHOOSE d \in DOMAIN Digits : Digits[d] = c) - 1

\* write!(w, "{}", n) for an unsigned integer
RECURSIVE Decimal(_)
Decimal(n) == IF n < 10 THEN <<Digits[n + 1]>> ELSE Decimal(n \div 10) \o <<Digits[(n % 10) + 1]>>

\* str::parse::<u64>() of a run of digits
RECURSIVE ParseU64(_)
ParseU64(cs) ==
    IF cs = <<>> THEN 0 ELSE 10 * ParseU64(SubSeq(cs, 1, Len(cs) - 1)) + DigitVal(cs[Len(cs)])

\* the characters of cs as one string value
RECURSIVE StrOf(_)
StrOf(cs) == IF cs = <<>> THEN "" ELSE cs[1] \o StrOf(Tail(cs))

\* {"_placeholder":true,"num":   (the Placeholder struct up to the value of num)
PlaceholderText ==
    <<"{", "\"", "_", "p", "l", "a", "c", "e", "h", "o", "l", "d", "e", "r", "\"", ":",
      "t", "r", "u", "e", ",", "\"", "n", "u", "m", "\"", ":">>

\* ------------------------------------------------------------------ values handed to Serialize
\* What a user argument is made of: a u8, a string (its characters), a
\* sequence, a byte slice that serialises through serialize_bytes, and a value
\* whose Serialize implementation returns an error.
RU8(n) == [r |-> "u8", n |-> n, s |-> <<>>, items |-> <<>>]
RStr(cs) == [r |-> "str", n |-> 0, s |-> cs, items |-> <<>>]
RSeq(xs) == [r |-> "seq", n |-> 0, s |-> <<>>, items |-> xs]
RBytes(bs) == [r |-> "bytes", n |-> 0, s |-> bs, items |-> <<>>]
RFail == [r |-> "fail", n |-> 0, s |-> <<>>, items |-> <<>>]

\* tungstenite::Message as the packet builder produces it: the text of a Text
\* frame, the bytes of a Binary frame
MsgText(cs) == [t |-> "Text", text |-> cs, bytes |-> <<>>]
MsgBinary(bs) == [t |-> "Binary", text |-> <<>>, bytes |-> bs]

\* engine::encode_binary / engine::package_binary: the frame of an attachment
BINARY_HEADER == 4
EncodeBinary(data) == MsgBinary(<<BINARY_HEADER>> \o data)
PackageBinary(data) == MsgBinary(data)

\* ------------------------------------------------------------------ argument serialisers
\* The writer a serialiser works on: the text written so far (out), the
\* attachment frames pushed so far (bufs), and the error that stopped it.
Wr(out, bufs) == [out |-> out, bufs |-> bufs, err |-> ""]
Put(w, cs) == [w EXCEPT !.out = @ \o cs]
Push(w, frame) == [w EXCEPT !.bufs = Append(@, frame)]
SerFail(w) == [w EXCEPT !.err = "JsonSerError"]

\* serde_json's compact writer, as args::serialize_arg calls it: a byte slice
\* is written as an array of numbers, a sequence as an array.  What was
\* written before an error stays in the writer.
RECURSIVE JsonToWriter(_, _), JsonElements(_, _, _, _)
JsonElements(xs, i, sep, w) ==
    IF i > Len(xs) \/ w.err /= "" THEN w
    ELSE JsonElements(xs, i + 1, TRUE, JsonToWriter(xs[i], IF sep THEN Put(w, <<",">>) ELSE w))
JsonToWriter(v, w) ==
    CASE v.r = "u8" -> Put(w, Decimal(v.n))
      [] v.r = "str" -> Put(w, <<"\"">> \o v.s \o <<"\"">>)
      [] v.r = "bytes" ->
            Put(JsonElements([i \in DOMAIN v.s |-> RU8(v.s[i])], 1, FALSE, Put(w, <<"[">>)), <<"]">>)
      [] v.r = "seq" ->
            LET e == JsonElements(v.items, 1, FALSE, Put(w, <<"[">>))
            IN IF e.err /= "" THEN e ELSE Put(e, <<"]">>)
      [] OTHER -> SerFail(w)

\* Placeholder::new(idx).serialize(s)
PutPlaceholder(w, idx) == Put(w, PlaceholderText \o Decimal(idx) \o <<"}">>)

\* SeqWrapper: state is BytesState ("Bytes" with the bytes gathered in data,
\* or "Poisoned" once the inner sequence serialiser has been opened).
SeqWrapper(w) == [state |-> "Bytes", data |-> <<>>, w |-> w]

\* Wrapper::serialize_* (Serializer for Wrapper), SeqWrapper::serialize_element
\* and SeqWrapper::end
RECURSIVE WrapperSerialize(_, _), SeqWrapperSerializeElement(_, _), SeqWrapperElements(_, _, _)

\* the Bytes state, for an element that serialises as one byte
SeqPushByte(data, b) ==
    (IF data = <<>> THEN <<BINARY_HEADER>> ELSE data) \o <<b>>

SeqWrapperSerializeElement(sw, v) ==
    IF sw.state = "Bytes" THEN
        IF v.r = "u8" THEN [sw EXCEPT !.data = SeqPushByte(@, v.n)]
        ELSE \* the data isn't all u8's: open the inner sequence, replay data, then v
             LET opened == Put(sw.w, <<"[">>)
                 replayed == JsonElements([i \in DOMAIN sw.data |-> RU8(sw.data[i])], 1, FALSE, opened)
                 elem == WrapperSerialize(v, IF sw.data /= <<>> THEN Put(replayed, <<",">>) ELSE replayed)
             IN IF elem.err /= "" THEN [sw EXCEPT !.w = elem]
                ELSE [state |-> "Poisoned", data |-> sw.data, w |-> elem]
    ELSE [sw EXCEPT !.w = WrapperSerialize(v, Put(sw.w, <<",">>))]

SeqWrapperElements(xs, i, sw) ==
    IF i > Len(xs) \/ sw.w.err /= "" THEN sw
    ELSE SeqWrapperElements(xs, i + 1, SeqWrapperSerializeElement(sw, xs[i]))

\* the Bytes arm of SeqWrapper::end without the test for an empty sequence
Mutant_SeqEndBytes(sw) ==
    PutPlaceholder(Push(sw.w, PackageBinary(sw.data)), Len(sw.w.bufs))

\* the Bytes arm of SeqWrapper::end
SeqEndBytes(sw) ==
    IF sw.data = <<>> THEN Put(sw.w, <<"[", "]">>)
    ELSE PutPlaceholder(Push(sw.w, PackageBinary(sw.data)), Len(sw.w.bufs))

SeqWrapperEnd(sw) ==
    IF sw.state = "Bytes" THEN SeqEndBytes(sw) ELSE Put(sw.w, <<"]">>)

\* Wrapper::serialize_bytes
SerializeBytes(bytes, w) ==
    PutPlaceholder(Push(w, EncodeBinary(bytes)), Len(w.bufs))

WrapperSerialize(v, w) ==
    CASE v.r = "u8" -> Put(w, Decimal(v.n))
      [] v.r = "str" -> Put(w, <<"\"">> \o v.s \o <<"\"">>)
      [] v.r = "bytes" -> SerializeBytes(v.s, w)
      [] v.r = "seq" ->
            LET sw == SeqWrapperElements(v.items, 1, SeqWrapper(w))
            IN IF sw.w.err /= "" THEN sw.w ELSE SeqWrapperEnd(sw)
      [] OTHER -> SerFail(w)

\* serialize_attachments::serialize_json
SerializeJson(arg, w) == WrapperSerialize(arg, w)

\* args::serialize_arg
SerializeArgText(w, arg) == JsonToWriter(arg, w)

\* args::serialize_arg_binary(writer, arg, attachments)
SerializeArgBinary(w, arg) == SerializeJson(arg, w)

\* ------------------------------------------------------------------ packet builder
KindDigit(kind) ==
    CASE kind = "Connect" -> "0"
      [] kind = "Disconnect" -> "1"
      [] kind = "Event" -> "2"
      [] kind = "Ack" -> "3"
      [] kind = "BinaryEvent" -> "5"
      [] kind = "BinaryAck" -> "6"

\* serialize_header with the namespace written whatever it is
Mutant_SerializeHeader(kind, attachments, namespace, id) ==
    <<"4", KindDigit(kind)>>
    \o (IF IsSome(attachments) THEN Decimal(Get(attachments)) \o <<"-">> ELSE <<>>)
    \o (UnwrapOr(namespace, <<"/">>) \o <<",">>)
    \o (IF IsSome(id) THEN Decimal(Get(id)) ELSE <<>>)

SerializeHeader(kind, attachments, namespace, id) ==
    <<"4", KindDigit(kind)>>
    \o (IF IsSome(attachments) THEN Decimal(Get(attachments)) \o <<"-">> ELSE <<>>)
    \o (IF IsSome(namespace) THEN Get(namespace) \o <<",">> ELSE <<>>)
    \o (IF IsSome(id) THEN Decimal(Get(id)) ELSE <<>>)

\* PacketBuilder { buffer, approach, first }; approach is Normal (binary =
\* FALSE, the other fields unused) or Binary { kind, namespace, id, attachments }
PacketBuilder(buffer, binary, kind, namespace, id) ==
    [buffer |-> buffer, binary |-> binary, kind |-> kind, namespace |-> namespace, id |-> id,
     attachments |-> <<>>, first |-> TRUE]

\* Result<(), ArgsError> of serialize_arg and the builder it leaves
ArgResult(b, e) == [builder |-> b, err |-> e]

SerializeArg(b, arg) ==
    LET start_pos == Len(b.buffer)
        attachment_start == Len(b.attachments)
        w == Wr(b.buffer \o (IF b.first THEN <<"[">> ELSE <<",">>), b.attachments)
        r == IF b.binary THEN SerializeArgBinary(w, arg) ELSE SerializeArgText(w, arg)
    IN IF r.err /= ""
       THEN ArgResult([b EXCEPT !.first = FALSE,
                                !.buffer = SubSeq(r.out, 1, start_pos),
                                !.attachments = SubSeq(r.bufs, 1, attachment_start)], r.err)
       ELSE ArgResult([b EXCEPT !.first = FALSE, !.buffer = r.out, !.attachments = r.bufs], "")

NewEvent(event, namespace, id, binary) ==
    LET b == IF ~binary
             THEN PacketBuilder(SerializeHeader("Event", None, namespace, id), FALSE, "", None, None)
             ELSE PacketBuilder(<<>>, TRUE, "BinaryEvent", namespace, id)
    IN SerializeArg(b, RStr(event)).builder

NewAck(namespace, id, binary) ==
    IF ~binary
    THEN PacketBuilder(SerializeHeader("Ack", None, namespace, Some(id)), FALSE, "", None, None)
    ELSE PacketBuilder(<<>>, TRUE, "BinaryAck", namespace, Some(id))

\* engine::package_message
PackageMessage(text) == MsgText(text)

\* finish with the attachment count left out of the frames added
Mutant_Finish(b) ==
    LET s == b.buffer \o (IF ~b.first THEN <<"]">> ELSE <<>>)
    IN IF ~b.binary THEN <<PackageMessage(s)>>
       ELSE <<PackageMessage(SerializeHeader(b.kind, Some(0), b.namespace, b.id) \o s)>>
            \o b.attachments

Finish(b) ==
    LET s == b.buffer \o (IF ~b.first THEN <<"]">> ELSE <<>>)
    IN IF ~b.binary THEN <<PackageMessage(s)>>
       ELSE <<PackageMessage(SerializeHeader(b.kind, Some(Len(b.attachments)), b.namespace, b.id) \o s)>>
            \o b.attachments

\* ------------------------------------------------------------------ a socket message as text
\* Result of reading one JSON value at index i of t: the value and the index
\* after it.
PRes(v, next) == [ok |-> TRUE, v |-> v, next |-> next]
PFail == [ok |-> FALSE, v |-> JNum(0), next |-> 0]

\* the index after the number (0|[1-9][0-9]*) that starts at i; i when none does
NumberEnd(t, i) ==
    IF i > Len(t) \/ ~IsDigit(t[i]) THEN i
    ELSE IF t[i] = "0" THEN i + 1
    ELSE CHOOSE k \in (i + 1)..(Len(t) + 1) :
            /\ \A m \in i..(k - 1) : IsDigit(t[m])
            /\ k = Len(t) + 1 \/ ~IsDigit(t[k])

\* serde_json reading a value of the JSON the builders write: numbers,
\* strings without escapes, arrays and placeholder objects, no white space
RECURSIVE ParseValue(_, _), ParseItems(_, _, _)
ParseValue(t, i) ==
    IF i > Len(t) THEN PFail
    ELSE IF IsDigit(t[i]) THEN
        LET e == NumberEnd(t, i) IN PRes(JNum(ParseU64(SubSeq(t, i, e - 1))), e)
    ELSE IF t[i] = "\"" THEN
        LET close == {k \in (i + 1)..Len(t) : t[k] = "\""} IN
        IF close = {} THEN PFail
        ELSE LET k == CHOOSE c \in close : \A d \in close : c <= d
             IN PRes(JStr(StrOf(SubSeq(t, i + 1, k - 1))), k + 1)
    ELSE IF t[i] = "[" THEN
        IF i + 1 <= Len(t) /\ t[i + 1] = "]" THEN PRes(JArr(<<>>), i + 2)
        ELSE ParseItems(t, i + 1, <<>>)
    ELSE IF t[i] = "{" THEN
        LET n == i + Len(PlaceholderText)
            e == NumberEnd(t, n)
        IN IF n <= Len(t) /\ SubSeq(t, i, n - 1) = PlaceholderText
              /\ e > n /\ e <= Len(t) /\ t[e] = "}"
           THEN PRes(JPlaceholder(ParseU64(SubSeq(t, n, e - 1))), e + 1)
           ELSE PFail
    ELSE PFail
ParseItems(t, i, acc) ==
    LET r == ParseValue(t, i) IN
    IF ~r.ok \/ r.next > Len(t) THEN PFail
    ELSE IF t[r.next] = "," THEN ParseItems(t, r.next + 1, Append(acc, r.v))
    ELSE IF t[r.next] = "]" THEN PRes(JArr(Append(acc, r.v)), r.next + 1)
    ELSE PFail

\* parse_args: the whole of group 7 read as a JSON array of raw values
ParseArgs(arg_str) ==
    LET r == ParseValue(arg_str, 1) IN
    IF r.ok /\ r.v.j = "arr" /\ r.next = Len(arg_str) + 1
    THEN [ok |-> TRUE, args |-> r.v.items]
    ELSE [ok |-> FALSE, args |-> <<>>]

\* (0|[1-9][0-9]*)?(\[.*\])?$ at index q of t
TailMatches(t, q) ==
    LET e == NumberEnd(t, q) IN
    \/ e = Len(t) + 1
    \/ e < Len(t) /\ t[e] = "[" /\ t[Len(t)] = "]"

\* the comma that ends group 5 when t[p] = '/': .+ is greedy, so the last
\* comma after which the tail of the pattern still matches
NamespaceCommas(t, p) ==
    {c \in (p + 2)..Len(t) : t[c] = "," /\ TailMatches(t, c + 1)}

NamespaceComma(t, p) ==
    CHOOSE c \in NamespaceCommas(t, p) : \A d \in NamespaceCommas(t, p) : c >= d

\* DESERIALIZE_RE.captures(text), with groups 3, 6 and 7 read as parse_text
\* reads them
Captures(t) ==
    IF t = <<>> \/ t[1] \notin {"0", "1", "2", "3", "5", "6"} THEN NoMatch
    ELSE
    LET a == NumberEnd(t, 2)
        hasAtt == a > 2 /\ a <= Len(t) /\ t[a] = "-"
        p == IF hasAtt THEN a + 1 ELSE 2
        hasNs == p <= Len(t) /\ t[p] = "/" /\ NamespaceCommas(t, p) /= {}
        q == IF hasNs THEN NamespaceComma(t, p) + 1 ELSE p
        e == NumberEnd(t, q)
    IN IF ~TailMatches(t, q) THEN NoMatch
       ELSE LET json == IF e <= Len(t) THEN ParseArgs(SubSeq(t, e, Len(t)))
                        ELSE [ok |-> TRUE, args |-> <<>>]
            IN SockText(t[1],
                        IF hasAtt THEN Some(ParseU64(SubSeq(t, 2, a - 1))) ELSE None,
                        IF hasNs THEN Some(StrOf(SubSeq(t, p, q - 2))) ELSE None,
                        IF e > q THEN Some(ParseU64(SubSeq(t, q, e - 1))) ELSE None,
                        IF e <= Len(t) THEN Some(json.args) ELSE None,
                        json.ok)

\* a Text frame as Decoder::decode_text takes it apart: the first byte, then
\* the socket message
TextFrame(cs) ==
    IF cs = <<>> THEN WsText("", FALSE, NoMatch)
    ELSE WsText(cs[1], FALSE, Captures(Tail(cs)))

\* ------------------------------------------------------------------ program state
WaiterIds == 1..MaxWaiters

\* State::to_poll
ToPoll(st) ==
    IF st = "NotSet" THEN "Pending" ELSE IF st = "Set" THEN "Ok" ELSE "Err"

\* poll returning without the second load
Mutant_PollReturn(st) == "Pending"

\* the last line of Waiter::poll, on the state it loads
PollReturn(st) == ToPoll(st)

\* Option::take that leaves the value in place
Mutant_Take(o) == o

\* what Option::take leaves behind
Take(o) == None

VARIABLES
    state,          \* Decoder.state
    in_progress,    \* Receiver.in_progress: Option<InProgress>
    open,           \* Receiver.open is Some: the open sender has not been used
    openSent,       \* times the one-shot open signal was fulfilled
    namespaces,     \* Callbacks.namespaces: namespace -> Option<Namespace>
    lock,           \* holder of the Mutex<Callbacks>: "free" or "driver"
    poisoned,       \* the Mutex<Callbacks> is poisoned
    queue,          \* batches in the outbound channel (send_tx / send_rx)
    sending,        \* frames of the batch the driver is writing, not yet written
    sink,           \* frames written to the transport sink, in order
    enq,            \* every batch ever put on the outbound channel, in order
    pc,             \* driver task: "main", "drain", "done", "deadlock"
    result,         \* the driver task's result once pc = "done"
    callback,       \* Option: the user callback the driver is running
    closeSig,       \* the close one-shot has been sent
    next_id,        \* Client.next_id
    emitPending,    \* Option: the batch an emit has built and not yet enqueued
    heldAcks,       \* AckBuilders user code kept to answer later
    disp,           \* Option: the packet the last inbound frame handed to process_packet
    ackCalls,       \* times each ack callback (namespace, id) has been invoked
    conn,           \* Connection::new: "handshake", "awaitOpen", "ready", "timeout", "failed", "panic"
    timerFired,     \* the Delay of Connection::new has elapsed (while new is running)
    closeCalls,     \* calls of Connection::close so far
    closeRes,       \* what the first close() returned ("" while it has not)
    closeLate,      \* what the latest later close() returned ("" when there was none)
    pb,             \* Option: the PacketBuilder an EventArgsBuilder / AckArgsBuilder holds
    pbNew,          \* Option: how that builder was made (kind, namespace, id, binary)
    pbArgs,         \* every serialize_arg call on it so far: the argument and the error
    pbFrames,       \* Option: the frames finish() returned
    resolved,       \* Option: the Arg last resolved, with what to_json_value and deserialize returned
    fState,         \* async_flag: the shared Atomic<State>: "NotSet", "Set" or "Dropped"
    setter_i,       \* Setter.i: Some while the Setter holds its SetterInner
    waiters,        \* the mpsc channel of WrappedWakers, by the id of the Waiter that sent each
    waiter,         \* per Waiter, Waiter.waiter: None, or Some of what its Mutex<Option<Waker>> holds
    mutex,          \* per Waiter, who holds the lock of its WrappedWaker: "free", "setter" or "waiter"
    spc,            \* where the thread of the Setter is
    inDrop,         \* the set_state running was called from Drop
    cur,            \* the Waiter whose WrappedWaker set_state took off the channel
    called,         \* what the owner of the Setter did: "none", "set" or "drop"
    created,        \* the Waiters that exist
    wpc,            \* per Waiter, where its poll is
    cx,             \* per Waiter, the number of the waker of its current or last poll
    polls,          \* the polls so far that no wake asked for
    pollResult,     \* per Waiter, what its last poll returned
    woken,          \* the wakers wake() was called on, as <<Waiter, number>>
    dropped,        \* the user has dropped the Connection
    clones          \* the senders Connection::sender() returned that are still alive

vars == <<state, in_progress, open, openSent, namespaces, lock, poisoned, queue, sending, sink,
          enq, pc, result, callback, closeSig, next_id, emitPending, heldAcks, disp, ackCalls,
          conn, timerFired, closeCalls, closeRes, closeLate, pb, pbNew, pbArgs, pbFrames,
          resolved, fState, setter_i, waiters, waiter, mutex, spc, inDrop, cur, called,
          created, wpc, cx, polls, pollResult, woken, dropped, clones>>

\* the packet builder of one emit
builderVars == <<pb, pbNew, pbArgs, pbFrames>>
\* the state of the library values a user holds apart from the connection
flagVars == <<fState, setter_i, waiters, waiter, mutex, spc, inDrop, cur, called, created,
              wpc, cx, polls, pollResult, woken>>

\* the Connection value and the senders cloned from it
senderVars == <<dropped, clones>>

libVars == <<builderVars, resolved, flagVars, senderVars>>
\* the state of the driver task and of the callback table
driverVars == <<state, in_progress, open, openSent, namespaces, lock, poisoned, queue, sending,
                sink, enq, pc, result, callback, next_id, emitPending, heldAcks, disp, ackCalls>>
\* the position of Connection::new
newVars == <<conn, timerFired>>
\* the calls of Connection::close
closeVars == <<closeSig, closeCalls, closeRes, closeLate>>


\* ------------------------------------------------------------------ input alphabets
NS == {"/", "/a"}
EventNames == {"msg"}
CbIds == {"c0"}

\* ------------------------------------------------------------------ callback table
NewNamespace == [fallback |-> None, events |-> {}, acks |-> {}]

GetOrCreateNamespace(tbl, ns) == IF IsSome(tbl[ns]) THEN Get(tbl[ns]) ELSE NewNamespace

EventsGet(events, ev) ==
    IF \E e \in events : e.ev = ev THEN Some((CHOOSE e \in events : e.ev = ev).cb) ELSE None


\* get_event that falls back to the fallback of any namespace that has one.
Mutant_GetEvent(tbl, ns, ev) ==
    LET own == IF IsNone(tbl[ns]) THEN None ELSE EventsGet(Get(tbl[ns]).events, ev)
        fbs == {n \in DOMAIN tbl : IsSome(tbl[n]) /\ IsSome(Get(tbl[n]).fallback)}
    IN IF IsSome(own) THEN own
       ELSE IF fbs = {} THEN None
       ELSE Get(tbl[CHOOSE n \in fbs : TRUE]).fallback

GetEvent(tbl, ns, ev) ==
    IF IsNone(tbl[ns]) THEN None
    ELSE LET n == Get(tbl[ns]) IN
         IF IsSome(EventsGet(n.events, ev)) THEN EventsGet(n.events, ev) ELSE n.fallback

SetEventTbl(tbl, ns, ev, cb) ==
    LET n == GetOrCreateNamespace(tbl, ns) IN
    [tbl EXCEPT ![ns] = Some([n EXCEPT !.events = {e \in n.events : e.ev /= ev} \cup {[ev |-> ev, cb |-> cb]}])]

ClearEventTbl(tbl, ns, ev) ==
    IF IsNone(tbl[ns]) THEN tbl
    ELSE [tbl EXCEPT ![ns] = Some([Get(tbl[ns]) EXCEPT !.events = {e \in @ : e.ev /= ev}])]

SetFallbackTbl(tbl, ns, cb) ==
    [tbl EXCEPT ![ns] = Some([GetOrCreateNamespace(tbl, ns) EXCEPT !.fallback = Some(cb)])]

ClearFallbackTbl(tbl, ns) ==
    IF IsNone(tbl[ns]) THEN tbl
    ELSE [tbl EXCEPT ![ns] = Some([Get(tbl[ns]) EXCEPT !.fallback = None])]

\* get_and_clear_ack: [found, tbl]
HasAck(tbl, ns, id) == IsSome(tbl[ns]) /\ id \in Get(tbl[ns]).acks

\* get_and_clear_ack that looks the callback up without removing it.
Mutant_ClearAckTbl(tbl, ns, id) == tbl

ClearAckTbl(tbl, ns, id) ==
    IF IsNone(tbl[ns]) THEN tbl
    ELSE [tbl EXCEPT ![ns] = Some([Get(tbl[ns]) EXCEPT !.acks = @ \ {id}])]

SetAckTbl(tbl, ns, id) ==
    [tbl EXCEPT ![ns] = Some([GetOrCreateNamespace(tbl, ns) EXCEPT !.acks = @ \cup {id}])]

\* ------------------------------------------------------------------ receiver
IPNew(partial) == [partial |-> partial, attachments |-> <<>>]
IPAdd(ip, msg) == [ip EXCEPT !.attachments = Append(@, msg)]
\* ready() as soon as one attachment was collected
Mutant_IPReady(ip) == Len(ip.attachments) >= 1

IPReady(ip) == Get(ip.partial.attachments) = Len(ip.attachments)
IPDeserialize(ip) == DeserializePartial(ip.partial, ip.attachments)

\* What process_message does before it calls process_packet: the error it
\* returns (if any), the decoder state and in_progress it leaves, whether it
\* fulfilled the open signal, whether it enqueued a pong, and the packet it
\* hands to process_packet.
Outcome(e, st, ip, opened, pong, packet) ==
    [err |-> e, state |-> st, ip |-> ip, opened |-> opened, pong |-> pong, packet |-> packet]

\* The EnginePacket::Message arm of process_message.
ProcessEngineMessage(st, ip, m) ==
    IF IsSome(ip) THEN
        LET ip2 == IPAdd(Get(ip), m) IN
        IF IPReady(ip2) THEN
            LET r == IPDeserialize(ip2) IN
            IF r.err /= "" THEN Outcome(r.err, st, None, FALSE, FALSE, None)
            ELSE Outcome("", st, None, FALSE, FALSE, Some(r.packet))
        ELSE Outcome("", st, Some(ip2), FALSE, FALSE, None)
    ELSE
        LET r == Deserialize(m) IN
        IF r.err /= "" THEN Outcome(r.err, st, None, FALSE, FALSE, None)
        ELSE IF r.tag = "Packet" THEN Outcome("", st, None, FALSE, FALSE, Some(r.packet))
        ELSE Outcome("", st, Some(IPNew(r.partial)), FALSE, FALSE, None)

\* The Open arm that drops the Open instead of sending it.
Mutant_OpenOutcome(st, ip, hasOpen) == Outcome("", st, ip, FALSE, FALSE, None)

\* The EnginePacket::Open arm of process_message: self.open.take() and, when
\* it was there, send.send(open).
OpenOutcome(st, ip, hasOpen) == Outcome("", st, ip, hasOpen, FALSE, None)

\* The EnginePacket::Ping arm of process_message: a pong batch is enqueued.
PingOutcome(st, ip) == Outcome("", st, ip, FALSE, TRUE, None)

ProcessMessage(st, ip, hasOpen, msg) ==
    LET d == Decode(st, msg) IN
    IF d.err /= "" THEN Outcome(d.err, d.state, ip, FALSE, FALSE, None)
    ELSE CASE d.pkt.p = "Open" -> OpenOutcome(d.state, ip, hasOpen)
           [] d.pkt.p = "Close" -> Outcome("", d.state, ip, FALSE, FALSE, None)
           [] d.pkt.p = "Ping" -> PingOutcome(d.state, ip)
           [] d.pkt.p = "Pong" -> Outcome("", d.state, ip, FALSE, FALSE, None)
           [] d.pkt.p = "Message" -> ProcessEngineMessage(d.state, ip, d.pkt.m)

\* process_websocket_packet that hands every frame to process_message
Mutant_ProcessWebsocketPacket(st, ip, hasOpen, msg) ==
    ProcessMessage(st, ip, hasOpen, msg)

ProcessWebsocketPacket(st, ip, hasOpen, msg) ==
    IF msg.t \in {"Close", "Ping", "Pong"} THEN Outcome("", st, ip, FALSE, FALSE, None)
    ELSE ProcessMessage(st, ip, hasOpen, msg)

\* Packet::namespace(): the namespace of the header, "/" when it has none
PacketNamespace(packet) == UnwrapOr(packet.namespace, "/")

\* What process_packet does up to the call of the user callback: the error it
\* returns, the callback table it leaves, and the callback it calls (with the
\* AckBuilder it passes: the event's id).
Dispatch(e, tbl, cb) == [err |-> e, tbl |-> tbl, callback |-> cb]
Callback(kind, ns, id) == [kind |-> kind, ns |-> ns, id |-> id]

\* process_packet with a lookup that makes the namespace it does not find
Mutant_ProcessPacket(tbl, packet) ==
    LET ns == PacketNamespace(packet) IN
    CASE packet.kind \in {"Connect", "Disconnect"} -> Dispatch("", tbl, None)
      [] packet.kind = "Event" ->
            IF packet.args = <<>> THEN Dispatch("EventNoArgs", tbl, None)
            ELSE IF packet.args[1].j /= "str" THEN Dispatch("ArgsError", tbl, None)
            ELSE IF IsSome(GetEvent(tbl, ns, packet.args[1].s))
                 THEN Dispatch("", tbl, Some(Callback("event", ns, packet.id)))
                 ELSE Dispatch("", [tbl EXCEPT ![ns] = Some(GetOrCreateNamespace(tbl, ns))], None)
      [] packet.kind = "Ack" ->
            IF HasAck(tbl, ns, Get(packet.id))
            THEN Dispatch("", ClearAckTbl(tbl, ns, Get(packet.id)), Some(Callback("ack", ns, packet.id)))
            ELSE Dispatch("UnexpectedAck", tbl, None)

ProcessPacket(tbl, packet) ==
    LET ns == PacketNamespace(packet) IN
    CASE packet.kind \in {"Connect", "Disconnect"} -> Dispatch("", tbl, None)
      [] packet.kind = "Event" ->
            IF packet.args = <<>> THEN Dispatch("EventNoArgs", tbl, None)
            ELSE IF packet.args[1].j /= "str" THEN Dispatch("ArgsError", tbl, None)
            ELSE IF IsSome(GetEvent(tbl, ns, packet.args[1].s))
                 THEN Dispatch("", tbl, Some(Callback("event", ns, packet.id)))
                 ELSE Dispatch("", tbl, None)
      [] packet.kind = "Ack" ->
            IF HasAck(tbl, ns, Get(packet.id))
            THEN Dispatch("", ClearAckTbl(tbl, ns, Get(packet.id)), Some(Callback("ack", ns, packet.id)))
            ELSE Dispatch("UnexpectedAck", tbl, None)

\* ------------------------------------------------------------------ outbound frames
\* the namespace segment of a header: absent for the default namespace
NsOpt(ns) == IF ns = "/" THEN None ELSE Some(ns)

\* engine::encode_pong(): the text frame "3"
EncodePong == WsText("3", FALSE, NoMatch)

\* PacketBuilder::new_event(event, ns, id, binary) .. finish(): the header
\* frame, then the attachment frames.  A binary emit here carries one byte
\* argument, a text emit none.
EmitFrames(ns, id, binary) ==
    IF binary
    THEN << WsText("4", FALSE, SockText("5", Some(1), NsOpt(ns), id, Some(<<JStr("msg"), JPlaceholder(0)>>), TRUE)),
            WsBinary("4", "a") >>
    ELSE << WsText("4", FALSE, SockText("2", None, NsOpt(ns), id, Some(<<JStr("msg")>>), TRUE)) >>

\* AckBuilder::args().send() with no argument: PacketBuilder::new_ack(ns, id, false).finish()
AckFrames(ns, id) ==
    << WsText("4", FALSE, SockText("3", None, NsOpt(ns), Some(id), None, TRUE)) >>

\* the batches produced so far, counting the one an emit still holds
Produced == Len(enq) + (IF IsSome(emitPending) THEN 1 ELSE 0)

\* unbounded_send: the batch joins the queue unless the driver task has ended
\* (send_rx dropped), in which case the send fails and the batch is lost
Enqueue(batch) ==
    IF pc = "done"
    THEN UNCHANGED <<queue, enq>>
    ELSE queue' = Append(queue, batch) /\ enq' = Append(enq, batch)

\* ------------------------------------------------------------------ frames the peer may send
Ev(ns, id, args) == WsText("4", FALSE, SockText("2", None, ns, id, Some(args), TRUE))
Hdr(kind, att, ns, id, args) == WsText("4", FALSE, SockText(kind, att, ns, id, args, TRUE))

OpenOk == WsText("0", TRUE, NoMatch)
OpenBadJson == WsText("0", FALSE, NoMatch)
BinHeader2 == Hdr("5", Some(2), None, None, Some(<<JStr("msg"), JPlaceholder(0), JPlaceholder(1)>>))
BinHeaderBadPh == Hdr("5", Some(1), None, None, Some(<<JStr("msg"), JArr(<<JPlaceholder(1)>>)>>))
BinHeaderNoArgs == Hdr("5", Some(1), None, None, None)
BinAckHeader == Hdr("6", Some(1), None, Some(0), Some(<<JPlaceholder(0)>>))
AckText(ns, id) == Hdr("3", None, ns, Some(id), Some(<<JNum(1)>>))

EngineFrames ==
    { OpenOk, OpenBadJson,
      WsText("1", FALSE, NoMatch), WsText("2", FALSE, NoMatch), WsText("3", FALSE, NoMatch),
      WsText("9", FALSE, NoMatch), WsText("", FALSE, NoMatch),
      WsBinary("4", "a"), WsBinary("4", "b"), WsBinary("x", "a"), WsBinary("", ""),
      WsPing, WsPong, WsClose }

SocketFrames ==
    { Hdr("0", None, None, None, None),                         \* 0
      Hdr("1", None, Some("/a"), None, None),                   \* 1/a,
      Hdr("0", None, None, Some(1), None),                      \* 01
      Ev(None, None, <<JStr("msg")>>),                          \* 2["msg"]
      Ev(Some("/a"), Some(1), <<JStr("msg")>>),                 \* 2/a,1["msg"]
      Ev(None, None, <<JStr("msg"), JPlaceholder(0)>>),         \* 2["msg",{placeholder 0}]
      Ev(None, None, <<JNum(1)>>),                              \* 2[1]
      Ev(None, None, <<>>),                                     \* 2[]
      Hdr("2", None, None, None, None),                         \* 2
      Hdr("2", Some(1), None, None, Some(<<JStr("msg")>>)),     \* 21-["msg"]
      Hdr("2", Some(0), None, None, Some(<<JStr("msg")>>)),     \* 20-["msg"]
      AckText(None, 0),                                         \* 30[1]
      AckText(Some("/a"), 0),                                   \* 3/a,0[1]
      Hdr("3", None, None, None, Some(<<JNum(1)>>)),            \* 3[1]
      Hdr("5", Some(0), None, None, Some(<<JStr("msg")>>)),     \* 50-["msg"]
      Hdr("5", None, None, None, Some(<<JStr("msg")>>)),        \* 5["msg"]
      BinHeader2,                                               \* 52-["msg",{0},{1}]
      BinHeaderBadPh,                                           \* 51-["msg",[{1}]]
      BinHeaderNoArgs,                                          \* 51-
      BinAckHeader,                                             \* 61-0[{0}]
      WsText("4", FALSE, SockText("2", None, None, None, Some(<<>>), FALSE)),  \* 2[x]
      WsText("4", FALSE, NoMatch) }                             \* 4 followed by no socket message

InFrames == EngineFrames \cup SocketFrames

\* ------------------------------------------------------------------ Init
Init ==
    /\ state = "Initial"
    /\ in_progress = None
    /\ open = TRUE
    /\ openSent = 0
    /\ namespaces = [ns \in NS |-> None]
    /\ lock = "free"
    /\ poisoned = FALSE
    /\ queue = <<>>
    /\ sending = <<>>
    /\ sink = <<>>
    /\ enq = <<>>
    /\ pc = "main"
    /\ result = ""
    /\ callback = None
    /\ closeSig = FALSE
    /\ next_id = 0
    /\ emitPending = None
    /\ heldAcks = {}
    /\ disp = None
    /\ ackCalls = [k \in NS \X (0..MaxEmits) |-> 0]
    /\ conn = "handshake"
    /\ timerFired = FALSE
    /\ closeCalls = 0
    /\ closeRes = ""
    /\ closeLate = ""
    /\ pb = None
    /\ pbNew = None
    /\ pbArgs = <<>>
    /\ pbFrames = None
    /\ resolved = None
    /\ fState = "NotSet"
    /\ setter_i = Some("inner")
    /\ waiters = <<>>
    /\ waiter = [w \in WaiterIds |-> None]
    /\ mutex = [w \in WaiterIds |-> "free"]
    /\ spc = "alive"
    /\ inDrop = FALSE
    /\ cur = 1
    /\ called = "none"
    /\ created = {1}
    /\ wpc = [w \in WaiterIds |-> "idle"]
    /\ cx = [w \in WaiterIds |-> 0]
    /\ polls = 0
    /\ pollResult = [w \in WaiterIds |-> "NotPolled"]
    /\ woken = {}
    /\ dropped = FALSE
    /\ clones = 0

\* ------------------------------------------------------------------ driver task
\* the driver is at a select!/next().await point, not inside an arm
Spawned == conn \in {"awaitOpen", "ready"}
AtSelect == Spawned /\ pc \in {"main", "drain"} /\ sending = <<>> /\ IsNone(callback)

\* The inbound arm: the stream yields Some(Ok(f)) and the Receiver processes it.
\* The MutexGuard taken in the scrutinee of `if let Some(cb) = ...lock()...`
\* is a temporary of that statement: it lives until the statement ends, that
\* is across cb.call(..), so the callback starts with the lock held.
RecvFrame(f) ==
    /\ AtSelect
    /\ LET o == ProcessWebsocketPacket(state, in_progress, open, f)
           d == IF o.err = "" /\ IsSome(o.packet) THEN ProcessPacket(namespaces, Get(o.packet))
                ELSE Dispatch("", namespaces, None)
           e == IF o.err /= "" THEN o.err ELSE d.err
       IN /\ o.pong => Produced < MaxBatches
          /\ state' = o.state
          /\ in_progress' = o.ip
          /\ open' = (open /\ ~o.opened)
          /\ openSent' = openSent + (IF o.opened THEN 1 ELSE 0)
          /\ disp' = IF o.err = "" THEN o.packet ELSE None
          /\ IF o.pong THEN Enqueue(<<EncodePong>>) ELSE UNCHANGED <<queue, enq>>
          /\ namespaces' = d.tbl
          /\ callback' = d.callback
          /\ lock' = IF IsSome(d.callback) THEN "driver" ELSE lock
          /\ ackCalls' = IF IsSome(d.callback) /\ Get(d.callback).kind = "ack"
                         THEN [ackCalls EXCEPT ![<<Get(d.callback).ns, Get(Get(d.callback).id)>>] = @ + 1]
                         ELSE ackCalls
          /\ pc' = IF e /= "" THEN "done" ELSE pc
          /\ result' = IF e /= "" THEN e ELSE result
    /\ UNCHANGED <<poisoned, sending, sink, closeSig, next_id, emitPending, heldAcks>>
    /\ UNCHANGED <<conn, timerFired, closeCalls, closeRes, closeLate, libVars>>

\* The stream yields Some(Err(e)).
RecvError ==
    /\ AtSelect
    /\ pc' = "done" /\ result' = "WebsocketError"
    /\ UNCHANGED <<state, in_progress, open, openSent, namespaces, lock, poisoned, queue, sending,
                   sink, enq, callback, closeSig, next_id, emitPending, heldAcks, disp, ackCalls>>
    /\ UNCHANGED <<conn, timerFired, closeCalls, closeRes, closeLate, libVars>>

\* The stream yields None.
RecvEnd ==
    /\ AtSelect
    /\ pc' = "done" /\ result' = "Ok"
    /\ UNCHANGED <<state, in_progress, open, openSent, namespaces, lock, poisoned, queue, sending,
                   sink, enq, callback, closeSig, next_id, emitPending, heldAcks, disp, ackCalls>>
    /\ UNCHANGED <<conn, timerFired, closeCalls, closeRes, closeLate, libVars>>

\* The user callback returns.  how = "plain": it does nothing with the driver's
\* state; "ack": it answers with its AckBuilder before returning; "hold": it keeps
\* the AckBuilder for later.  The if-let statement ends and the guard is dropped.
CallbackReturn(how) ==
    /\ IsSome(callback)
    /\ pc \in {"main", "drain"}
    /\ LET c == Get(callback) IN
       /\ how \in {"ack", "hold"} => c.kind = "event" /\ IsSome(c.id)
       /\ how = "ack" => Produced < MaxBatches
       /\ IF how = "ack" THEN Enqueue(AckFrames(c.ns, Get(c.id))) ELSE UNCHANGED <<queue, enq>>
       /\ heldAcks' = IF how = "hold" THEN heldAcks \cup {[ns |-> c.ns, id |-> Get(c.id)]} ELSE heldAcks
    /\ callback' = None
    /\ lock' = "free"
    /\ UNCHANGED <<state, in_progress, open, openSent, namespaces, poisoned, sending, sink, pc,
                   result, closeSig, next_id, emitPending, disp, ackCalls>>
    /\ UNCHANGED <<conn, timerFired, closeCalls, closeRes, closeLate, libVars>>

\* The user callback calls into the callback table (set/clear a callback, or an
\* emit with an ack callback, through a handle to the Client it captured).  The
\* lock is held by this very thread: std's Mutex::lock then never returns, it
\* deadlocks or panics.  A panic unwinds through the guard, which poisons the
\* mutex, and ends the task.
CallbackReenter(outcome) ==
    /\ IsSome(callback)
    /\ pc \in {"main", "drain"}
    /\ lock = "driver"
    /\ \/ /\ outcome = "deadlock"
          /\ pc' = "deadlock"
          /\ UNCHANGED <<callback, lock, poisoned, result>>
       \/ /\ outcome = "panic"
          /\ pc' = "done" /\ result' = "Panic"
          /\ callback' = None /\ lock' = "free" /\ poisoned' = TRUE
    /\ UNCHANGED <<state, in_progress, open, openSent, namespaces, queue, sending, sink, enq,
                   closeSig, next_id, emitPending, heldAcks, disp, ackCalls>>
    /\ UNCHANGED <<conn, timerFired, closeCalls, closeRes, closeLate, libVars>>

\* The user callback panics.  Nothing between cb.call and the task catches the
\* unwind: it goes through the guard of the callback table, which poisons the
\* mutex, and ends the driver task.
CallbackPanic ==
    /\ IsSome(callback)
    /\ pc \in {"main", "drain"}
    /\ pc' = "done" /\ result' = "Panic"
    /\ callback' = None
    /\ lock' = "free"
    /\ poisoned' = (poisoned \/ lock = "driver")
    /\ UNCHANGED <<state, in_progress, open, openSent, namespaces, queue, sending, sink, enq,
                   next_id, emitPending, heldAcks, disp, ackCalls, closeSig>>
    /\ UNCHANGED <<conn, timerFired, closeCalls, closeRes, closeLate, libVars>>

\* send_rx.next() of a queue that takes the newest batch first.
Mutant_Pop(q) == [batch |-> q[Len(q)], rest |-> SubSeq(q, 1, Len(q) - 1)]

\* send_rx.next(): the oldest batch of the channel
Pop(q) == [batch |-> Head(q), rest |-> Tail(q)]

\* The senders of the outbound channel the driver task owns, with a driver
\* whose Receiver was given none.
Mutant_TaskSenders(p) == 0

\* The senders of the outbound channel the driver task owns: the clone
\* Receiver::new was given, which the async move block holds inside `receiver`
\* until the task ends.  The send_tx parameter itself is not captured.
TaskSenders(p) == IF p = "done" THEN 0 ELSE 1

\* The senders of the outbound channel that are alive: the send_tx of
\* Connection::new, which becomes Connection.send, the clones sender()
\* returned, the clone in each AckBuilder, and the driver task's.
SenderCount ==
    (IF conn = "awaitOpen" \/ (conn = "ready" /\ ~dropped) THEN 1 ELSE 0)
    + clones + Cardinality(heldAcks) + TaskSenders(pc)

\* send_rx.next(): the oldest batch; None once the channel is empty and no
\* sender is left; pending otherwise
SendRxNext(q, n) ==
    IF q /= <<>> THEN [ready |-> TRUE, item |-> Some(Pop(q).batch)]
    ELSE IF n = 0 THEN [ready |-> TRUE, item |-> None]
    ELSE [ready |-> FALSE, item |-> None]

\* The outbound arm of the main select: a batch is taken from the channel, or
\* the channel has ended and the arm panics.
TakeBatch ==
    /\ Spawned
    /\ pc = "main" /\ sending = <<>> /\ IsNone(callback)
    /\ LET r == SendRxNext(queue, SenderCount) IN
       /\ r.ready
       /\ IF IsSome(r.item)
          THEN /\ sending' = Get(r.item)
               /\ queue' = Pop(queue).rest
               /\ UNCHANGED <<pc, result>>
          ELSE /\ pc' = "done" /\ result' = "SendStreamClosed"
               /\ UNCHANGED <<sending, queue>>
    /\ UNCHANGED <<state, in_progress, open, openSent, namespaces, lock, poisoned, sink, enq,
                   callback, closeSig, next_id, emitPending, heldAcks, disp, ackCalls>>
    /\ UNCHANGED <<conn, timerFired, closeCalls, closeRes, closeLate, libVars>>

\* sink.send(msg).await of the next frame of the batch returns Ok.
SendFrame ==
    /\ pc = "main" /\ sending /= <<>>
    /\ sink' = Append(sink, Head(sending))
    /\ sending' = Tail(sending)
    /\ UNCHANGED <<state, in_progress, open, openSent, namespaces, lock, poisoned, queue, enq, pc,
                   result, callback, closeSig, next_id, emitPending, heldAcks, disp, ackCalls>>
    /\ UNCHANGED <<conn, timerFired, closeCalls, closeRes, closeLate, libVars>>

\* sink.send(msg).await returns Err: the task returns the error.
SendFail ==
    /\ pc = "main" /\ sending /= <<>>
    /\ sending' = <<>>
    /\ pc' = "done" /\ result' = "WebsocketError"
    /\ UNCHANGED <<state, in_progress, open, openSent, namespaces, lock, poisoned, queue, sink,
                   enq, callback, closeSig, next_id, emitPending, heldAcks, disp, ackCalls>>
    /\ UNCHANGED <<conn, timerFired, closeCalls, closeRes, closeLate, libVars>>

\* `closed` is ready: close() sent the one-shot, or its sender was dropped with
\* the Connection (the arm takes Ok and Err(Canceled) alike)
CloseReady == closeSig \/ dropped

\* The close arm: break, reunite, ws_stream.close(None), then the drain loop.
CloseObserved ==
    /\ pc = "main" /\ sending = <<>> /\ IsNone(callback)
    /\ CloseReady
    /\ pc' = "drain"
    /\ sink' = Append(sink, WsClose)
    /\ UNCHANGED <<state, in_progress, open, openSent, namespaces, lock, poisoned, queue, sending,
                   enq, result, callback, closeSig, next_id, emitPending, heldAcks, disp,
                   ackCalls>>
    /\ UNCHANGED <<conn, timerFired, closeCalls, closeRes, closeLate, libVars>>

\* ------------------------------------------------------------------ user threads
\* Connection::close, its if-let: the handle and the close sender are taken;
\* the pattern matches when they were still there.
Mutant_TakeHandle(taken) == [matched |-> TRUE]

TakeHandle(taken) == [matched |-> ~taken]

\* Connection::close is called.  It takes &mut self, so the previous call has
\* returned.  The first call sends the close one-shot and awaits the handle;
\* a later call returns AlreadyClosed.
UserClose ==
    /\ conn = "ready" /\ ~dropped
    /\ closeCalls < MaxCloses
    /\ closeSig => closeRes /= ""
    /\ closeCalls' = closeCalls + 1
    /\ IF TakeHandle(closeSig).matched
       THEN closeSig' = TRUE /\ closeRes' = "" /\ UNCHANGED closeLate
       ELSE closeLate' = "AlreadyClosed" /\ UNCHANGED <<closeSig, closeRes>>
    /\ UNCHANGED <<libVars, driverVars, newVars>>

\* handle.await with the handle taken a second time, the task's result gone.
Mutant_HandleAwait(r) == "Ok"

\* handle.await: the RemoteHandle yields the result the driver task returned
HandleAwait(r) == r

\* The first close() returns: the driver task has ended.
CloseReturn ==
    /\ closeSig /\ closeRes = ""
    /\ pc = "done"
    /\ closeRes' = HandleAwait(result)
    /\ UNCHANGED <<libVars, driverVars, newVars, closeSig, closeCalls, closeLate>>

\* ------------------------------------------------------------------ Connection::new
\* the Delay elapses while Connection::new is running and no Open has been
\* received (once the Open is there the Delay changes nothing any more)
TimerFire ==
    /\ conn \in {"handshake", "awaitOpen"}
    /\ openSent = 0
    /\ ~timerFired
    /\ timerFired' = TRUE
    /\ UNCHANGED <<libVars, driverVars, closeVars, conn>>

\* the first select!: the handshake completes, process_websocket spawns the
\* driver task, and new awaits open_rx
HandshakeDone ==
    /\ conn = "handshake"
    /\ conn' = "awaitOpen"
    /\ UNCHANGED <<libVars, driverVars, closeVars, timerFired>>

\* the first select!: the handshake fails
HandshakeFail ==
    /\ conn = "handshake"
    /\ conn' = "failed" /\ timerFired' = FALSE
    /\ UNCHANGED <<libVars, driverVars, closeVars>>

\* the first select!: the timeout arm
ConnTimeout ==
    /\ conn = "handshake" /\ timerFired
    /\ conn' = "timeout" /\ timerFired' = FALSE
    /\ UNCHANGED <<libVars, driverVars, closeVars>>

\* open_rx.await yields the Open the Receiver sent: new returns the Connection
NewReturns ==
    /\ conn = "awaitOpen" /\ openSent >= 1
    /\ conn' = "ready" /\ timerFired' = FALSE
    /\ UNCHANGED <<libVars, driverVars, closeVars>>

\* open_rx.await yields Canceled, the driver task having ended (and dropped the
\* open sender) before any Open: the unwrap panics
NewPanics ==
    /\ conn = "awaitOpen" /\ openSent = 0 /\ pc = "done"
    /\ conn' = "panic" /\ timerFired' = FALSE
    /\ UNCHANGED <<libVars, driverVars, closeVars>>

\* A call of the user on the callback table: callbacks.lock().unwrap().<op>.
TableOp(tbl) ==
    /\ lock = "free" /\ ~poisoned
    /\ namespaces' = tbl
    /\ UNCHANGED <<state, in_progress, open, openSent, lock, poisoned, queue, sending, sink, enq,
                   pc, result, callback, closeSig, next_id, emitPending, heldAcks, disp,
                   ackCalls>>
    /\ UNCHANGED <<conn, timerFired, closeCalls, closeRes, closeLate, libVars>>

SetEvent(ns, ev, cb) == TableOp(SetEventTbl(namespaces, ns, ev, cb))
ClearEvent(ns, ev) == TableOp(ClearEventTbl(namespaces, ns, ev))
SetFallback(ns, cb) == TableOp(SetFallbackTbl(namespaces, ns, cb))
ClearFallback(ns) == TableOp(ClearFallbackTbl(namespaces, ns))

\* EventBuilder::callback (when withCb), args, and EventArgsBuilder::send up to
\* and including set_ack: the id is taken from next_id, the frames are built,
\* the ack callback is put in the table under the lock.
\* The id counter left where it is.
Mutant_NextId(n) == n

\* EventBuilder::callback: self.client.next_id += 1
NextId(n) == n + 1

\* send with the callback not yet in the table when the frames are sent
Mutant_SendSetAck(tbl, ns, id) == tbl

\* EventArgsBuilder::send before unbounded_send: `if let Some((callback, id))
\* = self.callback { ..set_ack(self.namespace, id, callback) }`
SendSetAck(tbl, ns, id) ==
    IF IsSome(id) THEN SetAckTbl(tbl, ns, Get(id)) ELSE tbl

EmitSend(ns, withCb, binary) ==
    /\ conn = "ready"
    /\ IsNone(emitPending)
    /\ Produced < MaxBatches
    /\ withCb => lock = "free" /\ ~poisoned /\ next_id < MaxEmits
    /\ LET id == IF withCb THEN Some(next_id) ELSE None IN
       /\ emitPending' = Some(EmitFrames(ns, id, binary))
       /\ next_id' = IF withCb THEN NextId(next_id) ELSE next_id
       /\ namespaces' = SendSetAck(namespaces, ns, id)
    /\ UNCHANGED <<state, in_progress, open, openSent, lock, poisoned, queue, sending, sink, enq,
                   pc, result, callback, closeSig, heldAcks, disp, ackCalls>>
    /\ UNCHANGED <<conn, timerFired, closeCalls, closeRes, closeLate, libVars>>

\* EventArgsBuilder::send, last line: the frames go on the outbound channel.
EmitEnqueue ==
    /\ IsSome(emitPending)
    /\ Enqueue(Get(emitPending))
    /\ emitPending' = None
    /\ UNCHANGED <<state, in_progress, open, openSent, namespaces, lock, poisoned, sending, sink,
                   pc, result, callback, closeSig, next_id, heldAcks, disp, ackCalls>>
    /\ UNCHANGED <<conn, timerFired, closeCalls, closeRes, closeLate, libVars>>

\* User code answers an event with an AckBuilder it kept.
AckSend(a) ==
    /\ a \in heldAcks
    /\ Produced < MaxBatches
    /\ Enqueue(AckFrames(a.ns, a.id))
    /\ heldAcks' = heldAcks \ {a}
    /\ UNCHANGED <<state, in_progress, open, openSent, namespaces, lock, poisoned, sending, sink,
                   pc, result, callback, closeSig, next_id, emitPending, disp, ackCalls>>
    /\ UNCHANGED <<conn, timerFired, closeCalls, closeRes, closeLate, libVars>>

\* ------------------------------------------------------------------ building a packet
\* the characters of the names the model uses
TextOf(s) ==
    CASE s = "/" -> <<"/">>
      [] s = "/a" -> <<"/", "a">>
      [] s = "msg" -> <<"m", "s", "g">>

OptText(o) == IF IsSome(o) THEN Some(TextOf(Get(o))) ELSE None

\* the arguments a user hands to arg_ref
BuilderArgs ==
    { RU8(1), RStr(<<"x">>), RSeq(<<>>), RSeq(<<RU8(1)>>), RSeq(<<RU8(1), RU8(2)>>),
      RSeq(<<RStr(<<"x">>)>>), RSeq(<<RSeq(<<RU8(7)>>), RSeq(<<>>)>>),
      RBytes(<<1, 2>>), RFail, RSeq(<<RBytes(<<3>>), RFail>>),
      RSeq(<<RU8(1), RStr(<<"x">>)>>), RSeq(<<RU8(1), RU8(2), RStr(<<"x">>), RU8(3)>>) }

\* EventBuilder::args / AckBuilder::args: the builder is made.  An ack always
\* carries an id.
BuilderNew(kind, ns, id, binary) ==
    /\ IsNone(pbNew)
    /\ kind = "Ack" => IsSome(id)
    /\ pbNew' = Some([kind |-> kind, ns |-> ns, id |-> id, binary |-> binary])
    /\ pb' = Some(IF kind = "Event"
                  THEN NewEvent(TextOf("msg"), OptText(NsOpt(ns)), id, binary)
                  ELSE NewAck(OptText(NsOpt(ns)), Get(id), binary))
    /\ UNCHANGED <<pbArgs, pbFrames>>
    /\ UNCHANGED <<driverVars, newVars, closeVars, resolved, flagVars, senderVars>>

\* EventArgsBuilder::arg_ref / AckArgsBuilder::arg_ref: the builder stays
\* with the caller whatever serialize_arg returns
BuilderArg(arg) ==
    /\ IsSome(pb)
    /\ Len(pbArgs) < MaxArgs
    /\ LET r == SerializeArg(Get(pb), arg) IN
       /\ pb' = Some(r.builder)
       /\ pbArgs' = Append(pbArgs, [arg |-> arg, err |-> r.err])
    /\ UNCHANGED <<pbNew, pbFrames>>
    /\ UNCHANGED <<driverVars, newVars, closeVars, resolved, flagVars, senderVars>>

\* EventArgsBuilder::send / AckArgsBuilder::send up to builder.finish()
BuilderFinish ==
    /\ IsSome(pb)
    /\ pbFrames' = Some(Finish(Get(pb)))
    /\ pb' = None
    /\ UNCHANGED <<pbNew, pbArgs>>
    /\ UNCHANGED <<driverVars, newVars, closeVars, resolved, flagVars, senderVars>>

\* ------------------------------------------------------------------ specifications
\* The whole client, with a peer that sends the frames of the connection's
\* normal life and a user who emits in every mode.
PeerFrames ==
    { OpenOk, WsText("2", FALSE, NoMatch), Ev(None, Some(1), <<JStr("msg")>>), AckText(None, 0) }

Next ==
    \/ \E f \in PeerFrames : RecvFrame(f)
    \/ RecvError
    \/ RecvEnd
    \/ \E how \in {"plain", "ack", "hold"} : CallbackReturn(how)
    \/ \E outcome \in {"deadlock", "panic"} : CallbackReenter(outcome)
    \/ TakeBatch
    \/ SendFrame
    \/ SendFail
    \/ CloseObserved
    \/ UserClose
    \/ HandshakeDone
    \/ NewReturns
    \/ NewPanics
    \/ \E ev \in EventNames, cb \in CbIds : SetEvent("/", ev, cb)
    \/ \E withCb \in BOOLEAN, binary \in BOOLEAN : EmitSend("/", withCb, binary)
    \/ EmitEnqueue
    \/ \E a \in heldAcks : AckSend(a)

Spec == Init /\ [][Next]_vars

\* The inbound path: a peer that sends any frame of InFrames, in any order and
\* without end, and a user who registers an event callback on "/", a fallback
\* on "/a", and emits text events with an ack callback on "/".  The driver's
\* outbound and close arms are left to Spec: they touch none of the Receiver's
\* state.
NextRecv ==
    \/ \E f \in InFrames : RecvFrame(f)
    \/ RecvError
    \/ RecvEnd
    \/ CallbackReturn("plain")
    \/ \E outcome \in {"deadlock", "panic"} : CallbackReenter(outcome)
    \/ \E ev \in EventNames, cb \in CbIds : SetEvent("/", ev, cb)
    \/ \E cb \in CbIds : SetFallback("/a", cb)
    \/ EmitSend("/", TRUE, FALSE)
    \/ EmitEnqueue
    \/ HandshakeDone
    \/ NewReturns
    \/ NewPanics

SpecRecv == Init /\ [][NextRecv]_vars

\* Establishment and shutdown: Connection::new from the handshake on, a peer
\* that sends an Open, events, acks, a Close and frames of each kind of error,
\* and a user who registers a callback and calls close().
ConnFrames ==
    { OpenOk,
      WsText("1", FALSE, NoMatch),
      WsText("9", FALSE, NoMatch),
      WsText("4", FALSE, NoMatch),
      Ev(None, None, <<JStr("msg")>>),
      Ev(None, None, <<JNum(1)>>),
      AckText(None, 0),
      BinHeaderNoArgs,
      WsBinary("4", "a"),
      WsPing }

NextConn ==
    \/ HandshakeDone
    \/ HandshakeFail
    \/ TimerFire
    \/ ConnTimeout
    \/ NewReturns
    \/ NewPanics
    \/ \E f \in ConnFrames : RecvFrame(f)
    \/ RecvError
    \/ RecvEnd
    \/ CallbackReturn("plain")
    \/ CallbackPanic
    \/ \E ev \in EventNames, cb \in CbIds : SetEvent("/", ev, cb)
    \/ UserClose
    \/ CloseObserved
    \/ CloseReturn

SpecConn == Init /\ [][NextConn]_vars

\* The main loop under fair scheduling: a peer that sends an Open, pings and
\* events, a user who registers an event callback.  select! chooses among its
\* ready arms pseudo-randomly, so an outbound arm that is ready again and again
\* is taken (strong fairness); a write to the sink completes, and a callback
\* that can return does (weak fairness).
LiveFrames == { OpenOk, WsText("2", FALSE, NoMatch), Ev(None, None, <<JStr("msg")>>) }

NextLive ==
    \/ HandshakeDone
    \/ NewReturns
    \/ NewPanics
    \/ \E f \in LiveFrames : RecvFrame(f)
    \/ RecvEnd
    \/ CallbackReturn("plain")
    \/ \E outcome \in {"deadlock", "panic"} : CallbackReenter(outcome)
    \/ \E ev \in EventNames, cb \in CbIds : SetEvent("/", ev, cb)
    \/ TakeBatch
    \/ SendFrame
    \/ SendFail

SpecLive ==
    /\ Init /\ [][NextLive]_vars
    /\ SF_vars(TakeBatch)
    /\ WF_vars(SendFrame)
    /\ WF_vars(CallbackReturn("plain"))

\* The callback table on its own: a user who sets and clears event callbacks
\* and fallbacks, of two callbacks, for two events, on two namespaces.
TableEvents == {"msg", "other"}
TableCbs == {"c0", "c1"}

NextTable ==
    \/ \E ns \in NS, ev \in TableEvents, cb \in TableCbs : SetEvent(ns, ev, cb)
    \/ \E ns \in NS, ev \in TableEvents : ClearEvent(ns, ev)
    \/ \E ns \in NS, cb \in TableCbs : SetFallback(ns, cb)
    \/ \E ns \in NS : ClearFallback(ns)

SpecTable == Init /\ [][NextTable]_vars

\* ------------------------------------------------------------------ resolving an argument
\* the attachment lists of a packet: up to MaxAttachments buffers
AttachmentLists ==
    UNION {[1..n -> {"a", "b"}] : n \in 0..MaxAttachments}

\* the arguments resolved: scalars, and placeholders of every index up to
\* MaxAttachments, alone, in an array, nested, and after a placeholder 0
ArgValues ==
    {JNum(1), JStr("x")}
    \cup UNION {{ JPlaceholder(k), JArr(<<JPlaceholder(k)>>),
                  JArr(<<JNum(1), JArr(<<JPlaceholder(k)>>)>>),
                  JArr(<<JPlaceholder(0), JPlaceholder(k)>>) } : k \in 0..MaxAttachments}

\* A callback resolves one argument of the packet it was given: to_json_value,
\* and deserialize into T.
ResolveArg(arg, attachments, target) ==
    /\ resolved' = Some([arg |-> arg, attachments |-> attachments, target |-> target,
                         json |-> ToJsonValue(arg, attachments),
                         de |-> ArgDeserialize(arg, attachments, target)])
    /\ UNCHANGED <<driverVars, newVars, closeVars, builderVars, flagVars, senderVars>>

NextArgs ==
    \E arg \in ArgValues, attachments \in AttachmentLists, target \in {"Value", "Bytes"} :
        ResolveArg(arg, attachments, target)

SpecArgs == Init /\ [][NextArgs]_vars

\* ------------------------------------------------------------------ async_flag
notFlagVars == <<driverVars, newVars, closeVars, builderVars, resolved, senderVars>>

setterVars == <<fState, setter_i, spc, inDrop, cur, called>>
waiterVars == <<created, wpc, cx, polls, pollResult>>

\* cx.waker() of the current or last poll of w
WakerOf(w) == <<w, cx[w]>>

\* the Receiver of the channel is dropped when set_state returns
ReceiverDropped == spc \in {"set_end", "gone"}

\* Setter::set: take the inner, and the store of set_state(State::Set)
Set ==
    /\ spc = "alive"
    /\ IsSome(setter_i)
    /\ setter_i' = Take(setter_i)
    /\ fState' = "Set"
    /\ spc' = "iter"
    /\ called' = "set"
    /\ UNCHANGED <<inDrop, cur, waiters, waiter, mutex, woken, waiterVars, notFlagVars>>

\* Drop for Setter: by its owner while the flag is not set, or at the end of
\* set; set_state(State::Dropped) if the inner is still there.
DropSetter ==
    /\ spc \in {"alive", "set_end"}
    /\ called' = IF spc = "alive" THEN "drop" ELSE called
    /\ IF IsSome(setter_i)
       THEN /\ setter_i' = Take(setter_i)
            /\ fState' = "Dropped"
            /\ spc' = "iter"
            /\ inDrop' = TRUE
       ELSE /\ spc' = "gone"
            /\ UNCHANGED <<setter_i, fState, inDrop>>
    /\ UNCHANGED <<cur, waiters, waiter, mutex, woken, waiterVars, notFlagVars>>

\* set_state: one step of waiters.try_iter()
TryRecv ==
    /\ spc = "iter"
    /\ IF waiters = <<>>
       THEN /\ spc' = IF inDrop THEN "gone" ELSE "set_end"
            /\ UNCHANGED <<cur, waiters>>
       ELSE /\ cur' = Head(waiters)
            /\ waiters' = Tail(waiters)
            /\ spc' = "recvd"
    /\ UNCHANGED <<fState, setter_i, inDrop, called, waiter, mutex, woken, waiterVars, notFlagVars>>

\* set_state: waiter.try_lock()
SetterTryLock ==
    /\ spc = "recvd"
    /\ IF mutex[cur] = "free"
       THEN /\ mutex' = [mutex EXCEPT ![cur] = "setter"]
            /\ spc' = "locked"
       ELSE /\ spc' = "iter"
            /\ UNCHANGED mutex
    /\ UNCHANGED <<fState, setter_i, inDrop, cur, called, waiters, waiter, woken, waiterVars,
                   notFlagVars>>

\* set_state: w.take().expect(..).wake(), and the guard is dropped
SetterWake ==
    /\ spc = "locked"
    /\ IF IsSome(Get(waiter[cur]))
       THEN /\ woken' = woken \cup {<<cur, Get(Get(waiter[cur]))>>}
            /\ waiter' = [waiter EXCEPT ![cur] = Some(None)]
            /\ mutex' = [mutex EXCEPT ![cur] = "free"]
            /\ spc' = "iter"
       ELSE /\ spc' = "panicked"
            /\ UNCHANGED <<woken, waiter, mutex>>
    /\ UNCHANGED <<fState, setter_i, inDrop, cur, called, waiters, waiterVars, notFlagVars>>

\* Waiter::poll up to its first load of the state, with the waker numbered k
PollEnter(w, k) ==
    /\ cx' = [cx EXCEPT ![w] = k]
    /\ IF fState /= "NotSet"
       THEN /\ pollResult' = [pollResult EXCEPT ![w] = ToPoll(fState)]
            /\ UNCHANGED wpc
       ELSE /\ wpc' = [wpc EXCEPT ![w] = "register"]
            /\ UNCHANGED pollResult
    /\ UNCHANGED <<created, setterVars, waiters, waiter, mutex, woken, notFlagVars>>

\* A Waiter that has not resolved is polled though no wake asked for it: its
\* first poll, or a later one with the same waker or a new one.
Poll(w, fresh) ==
    /\ w \in created
    /\ wpc[w] = "idle"
    /\ pollResult[w] \in {"NotPolled", "Pending"}
    /\ polls < MaxPolls
    /\ polls' = polls + 1
    /\ PollEnter(w, IF fresh \/ cx[w] = 0 THEN cx[w] + 1 ELSE cx[w])

\* A Waiter that returned Pending is polled again because its waker was woken.
PollWoken(w) ==
    /\ w \in created
    /\ wpc[w] = "idle"
    /\ pollResult[w] = "Pending"
    /\ WakerOf(w) \in woken
    /\ UNCHANGED polls
    /\ PollEnter(w, cx[w])

\* Waiter::poll: with a WrappedWaker, try_lock; without, make one and send it
Register(w) ==
    /\ wpc[w] = "register"
    /\ IF IsSome(waiter[w])
       THEN /\ IF mutex[w] = "free"
               THEN /\ mutex' = [mutex EXCEPT ![w] = "waiter"]
                    /\ wpc' = [wpc EXCEPT ![w] = "locked"]
               ELSE /\ wpc' = [wpc EXCEPT ![w] = "load"]
                    /\ UNCHANGED mutex
            /\ UNCHANGED <<waiter, waiters>>
       ELSE /\ waiter' = [waiter EXCEPT ![w] = Some(Some(cx[w]))]
            /\ waiters' = IF ReceiverDropped THEN waiters ELSE Append(waiters, w)
            /\ wpc' = [wpc EXCEPT ![w] = "load"]
            /\ UNCHANGED mutex
    /\ UNCHANGED <<created, cx, polls, pollResult, setterVars, woken, notFlagVars>>

\* Waiter::poll: *w = Some(cx.waker().clone()), and the guard is dropped
StoreWaker(w) ==
    /\ wpc[w] = "locked"
    /\ waiter' = [waiter EXCEPT ![w] = Some(Some(cx[w]))]
    /\ mutex' = [mutex EXCEPT ![w] = "free"]
    /\ wpc' = [wpc EXCEPT ![w] = "load"]
    /\ UNCHANGED <<created, cx, polls, pollResult, setterVars, waiters, woken, notFlagVars>>

\* Waiter::poll: the second load of the state, returned
PollLoad(w) ==
    /\ wpc[w] = "load"
    /\ pollResult' = [pollResult EXCEPT ![w] = PollReturn(fState)]
    /\ wpc' = [wpc EXCEPT ![w] = "idle"]
    /\ UNCHANGED <<created, cx, polls, setterVars, waiters, waiter, mutex, woken, notFlagVars>>

\* Clone for Waiter: of a Waiter that is not being polled and was not consumed
CloneWaiter(src) ==
    /\ src \in created
    /\ wpc[src] = "idle"
    /\ pollResult[src] \in {"NotPolled", "Pending"}
    /\ Cardinality(created) < MaxWaiters
    /\ created' = created \cup {Cardinality(created) + 1}
    /\ UNCHANGED <<wpc, cx, polls, pollResult, setterVars, waiters, waiter, mutex, woken,
                   notFlagVars>>

SetterStep == TryRecv \/ SetterTryLock \/ SetterWake

WaiterStep(w) == Register(w) \/ StoreWaker(w) \/ PollLoad(w)

NextFlag ==
    \/ Set
    \/ DropSetter
    \/ TryRecv
    \/ SetterTryLock
    \/ SetterWake
    \/ \E w \in WaiterIds :
          \/ \E fresh \in BOOLEAN : Poll(w, fresh)
          \/ PollWoken(w)
          \/ Register(w)
          \/ StoreWaker(w)
          \/ PollLoad(w)
          \/ CloneWaiter(w)

SpecFlag == Init /\ [][NextFlag]_vars

\* The threads are scheduled: the Setter's thread finishes what set or drop
\* began, a poll that began returns, and a Waiter whose waker was woken is
\* polled again.  Nothing makes the owner call set or drop, and nothing makes
\* an executor poll a Waiter that was not woken.
SpecFlagFair ==
    /\ SpecFlag
    /\ WF_vars(SetterStep)
    /\ WF_vars(spc = "set_end" /\ DropSetter)
    /\ \A w \in WaiterIds : WF_vars(WaiterStep(w)) /\ WF_vars(PollWoken(w))

\* A user builds one packet: any kind, namespace, id and mode, then arguments,
\* then finish.
NextBuilder ==
    \/ \E kind \in {"Event", "Ack"}, ns \in NS, id \in {None, Some(0), Some(12)}, binary \in BOOLEAN :
          BuilderNew(kind, ns, id, binary)
    \/ \E arg \in BuilderArgs : BuilderArg(arg)
    \/ BuilderFinish

SpecBuilder == Init /\ [][NextBuilder]_vars

\* ------------------------------------------------------------------ properties
\* the step is the Receiver processing the inbound frame f
Received(f) == RecvFrame(f)

\* the engine text frames with a packet digit
IsEngineDigit(f) == f.t = "Text" /\ f.first \in {"0", "1", "2", "3", "4"}

\* C1: the decoder accepts an Open frame only in Initial, a frame of kind 1..4
\* only in Active, and no frame at all in Closed.
C1_DecodeRespectsLifecycle ==
    [][\A f \in InFrames :
          (Received(f) /\ IsEngineDigit(f) /\ Decode(state, f).err = "")
          => /\ state /= "Closed"
             /\ f.first = "0" => state = "Initial"
             /\ f.first /= "0" => state = "Active"]_vars

\* C2: a socket packet is handed to dispatch, and a user callback runs, only
\* after the engine Open packet was received and the open signal fulfilled.
C2_NoDispatchBeforeOpen ==
    (IsSome(disp) \/ IsSome(callback)) => (state /= "Initial" /\ openSent >= 1)

\* the frames of a sequence of batches, in order
RECURSIVE Flatten(_)
Flatten(batches) == IF batches = <<>> THEN <<>> ELSE Head(batches) \o Flatten(Tail(batches))

\* the frames the outbound arm wrote to the sink (the Close frame is written by
\* the close arm)
Written == SelectSeq(sink, LAMBDA f : f.t /= "Close")

\* C3: the frames of a batch reach the sink contiguously and in order, and the
\* batches in the order they were enqueued: what was written is a prefix of
\* the enqueued batches laid end to end, and while the driver runs the written
\* frames, the rest of the batch in hand and the waiting batches make up exactly
\* that sequence.
C3_BatchesContiguousFifo ==
    LET all == Flatten(enq) IN
    /\ Len(Written) <= Len(all)
    /\ Written = SubSeq(all, 1, Len(Written))
    /\ pc \in {"main", "drain"} => Written \o sending \o Flatten(queue) = all

\* a two-frame emit and a pong were enqueued and both fully written
C3_Witness ==
    /\ Len(enq) = 2
    /\ \E i \in 1..2 : Len(enq[i]) = 2
    /\ \E i \in 1..2 : enq[i] = <<EncodePong>>
    /\ Written = Flatten(enq)

\* the step hands an Ack packet for the ack callback k = <<namespace, id>> to
\* process_packet
AckStep(k) ==
    /\ IsSome(disp')
    /\ Get(disp').kind = "Ack"
    /\ k = <<PacketNamespace(Get(disp')), Get(Get(disp').id)>>
    /\ \E f \in InFrames : Received(f)

\* C4: an inbound Ack invokes the registered ack callback and removes it, so
\* the callback runs at most once; an Ack whose id has no callback registered
\* (never registered, or already invoked) invokes nothing and fails with
\* UnexpectedAck.
C4_AckAtMostOnce ==
    [][\A k \in DOMAIN ackCalls :
          AckStep(k) =>
             IF HasAck(namespaces, k[1], k[2])
             THEN /\ ackCalls[k] = 0
                  /\ ackCalls' = [ackCalls EXCEPT ![k] = 1]
                  /\ ~HasAck(namespaces', k[1], k[2])
             ELSE /\ ackCalls' = ackCalls
                  /\ IsNone(callback')
                  /\ pc' = "done" /\ result' = "UnexpectedAck"]_vars

\* an ack callback ran once and a later Ack with its id ended the driver
C4_Witness ==
    /\ ackCalls[<<"/", 0>>] = 1
    /\ pc = "done" /\ result = "UnexpectedAck"
    /\ IsSome(disp) /\ Get(disp).kind = "Ack" /\ Get(disp).id = Some(0)

\* C5: the callback-table mutex is not held while a user callback runs.
C5_LockFreeDuringCallback ==
    IsSome(callback) => lock = "free"

\* the step gives the Receiver an engine message while a partial is pending
PartialStep(f) ==
    /\ Received(f)
    /\ IsSome(in_progress)
    /\ Decode(state, f).err = ""
    /\ Decode(state, f).pkt.p = "Message"

\* C6: after a binary header declaring N > 0 attachments nothing is dispatched
\* until the N-th following engine message; that message dispatches exactly one
\* packet, of kind Event or Ack, whose attachments are the N payloads in arrival
\* order, and leaves no partial pending.
C6_PartialAssembly ==
    [][\A f \in InFrames :
          /\ (Received(f) /\ IsNone(in_progress) /\ IsSome(in_progress')) => IsNone(disp')
          /\ PartialStep(f) =>
                LET ip == Get(in_progress)
                    msgs == Append(ip.attachments, Decode(state, f).pkt.m)
                IN IF Len(msgs) < Get(ip.partial.attachments)
                   THEN IsNone(disp') /\ IsSome(in_progress')
                   ELSE /\ IsSome(disp')
                        /\ Get(disp').kind \in {"Event", "Ack"}
                        /\ Get(disp').attachments = [i \in DOMAIN msgs |-> msgs[i].data]
                        /\ IsNone(in_progress')]_vars

\* C7: a text engine message that arrives while a partial is pending is not
\* stored and not dispatched: the Receiver fails with TextAttachment.
C7_TextWhilePartialFails ==
    [][\A f \in InFrames :
          (PartialStep(f) /\ Decode(state, f).pkt.m.t = "Text")
          => /\ pc' = "done" /\ result' = "TextAttachment"
             /\ IsNone(disp')
             /\ IsNone(in_progress')]_vars

\* C8: a dispatched packet has exactly as many attachments as its header
\* declared, none when the header has no count.
C8_AttachmentCountMatches ==
    IsSome(disp) => Len(Get(disp).attachments) = UnwrapOr(Get(disp).message.att, 0)

\* a packet assembled from a header declaring two attachments was dispatched
C8_Witness ==
    /\ IsSome(disp)
    /\ Get(disp).message.att = Some(2)
    /\ Get(disp).attachments = <<"a", "b">>

\* the placeholder indices reachable from the args of a packet
PacketPlaceholderNums(packet) ==
    UNION {PlaceholderNums(packet.args[i]) : i \in DOMAIN packet.args}

C10_StateMonotone ==
    [][/\ state = "Initial" => state' \in {"Initial", "Active"}
       /\ state = "Active" => state' \in {"Active", "Closed"}
       /\ state = "Closed" => state' = "Closed"]_vars

\* the decoder went through Active and reached Closed
C10_Witness ==
    state = "Closed" /\ openSent = 1

\* C11: once the decoder is Closed, decode returns MessageAfterClose for every
\* transport frame (text, binary, ping, pong, close) and the state stays
\* Closed; a frame the Receiver passes to the decoder then ends the driver with
\* that error.
C11_ClosedRejectsAll ==
    /\ state = "Closed" =>
          \A f \in InFrames : Decode(state, f) = DecodeErr("MessageAfterClose", "Closed")
    /\ result = "MessageAfterClose" => (state = "Closed" /\ pc = "done")

\* a frame arrived after the Close packet and was rejected
C11_Witness ==
    state = "Closed" /\ pc = "done" /\ result = "MessageAfterClose"

\* C12: the first close() sends the close signal and returns the result of the
\* driver task; every later call returns AlreadyClosed and signals nothing,
\* whatever the first call returned.
C12_CloseOnce ==
    [][/\ (closeCalls' /= closeCalls /\ closeCalls = 0)
            => (~closeSig /\ closeSig' /\ closeRes' = "" /\ closeLate' = "")
       /\ (closeCalls' /= closeCalls /\ closeCalls >= 1)
            => (closeLate' = "AlreadyClosed" /\ UNCHANGED <<closeSig, closeRes, driverVars>>)
       /\ (closeRes' /= closeRes)
            => (closeRes = "" /\ closeCalls = 1 /\ pc = "done" /\ closeRes' = result)]_vars

\* the first close() returned an error of the driver and a second call
\* returned AlreadyClosed
C12_Witness ==
    /\ closeCalls = 2
    /\ closeLate = "AlreadyClosed"
    /\ closeRes \notin {"", "Ok"}

\* the error the Receiver raises on the inbound frame f ("" when it raises none)
RaisedError(f) ==
    LET o == ProcessWebsocketPacket(state, in_progress, open, f) IN
    IF o.err /= "" THEN o.err
    ELSE IF IsSome(o.packet) THEN ProcessPacket(namespaces, Get(o.packet)).err
    ELSE ""

\* C13: an error raised while an inbound frame is processed, in the main loop
\* or in the drain after close, ends the driver task with that error as its
\* result; the result of an ended task never changes, and close() returns it.
C13_ErrorsReachClose ==
    [][/\ \A f \in InFrames :
             (Received(f) /\ RaisedError(f) /= "")
             => (pc' = "done" /\ result' = RaisedError(f))
       /\ pc = "done" => UNCHANGED <<pc, result>>
       /\ closeRes' /= closeRes => (pc = "done" /\ closeRes' = result)]_vars

\* close() returned a dispatch error that was raised in the drain after close
C13_Witness ==
    /\ closeRes = "UnexpectedAck"
    /\ result = "UnexpectedAck"
    /\ \E i \in DOMAIN sink : sink[i].t = "Close"

\* C14: a user callback that panics during dispatch leaves the callback table
\* usable (its mutex not poisoned) and the driver task running: no panic of a
\* callback ends the task.
C14_PanicIsolated ==
    /\ ~poisoned
    /\ ~(pc = "done" /\ result = "Panic")

\* C16: once the timeout has elapsed with no Open received, Connection::new
\* does not return a Connection: it returns Timeout, also when the handshake
\* has completed.
C16_TimeoutBoundsOpen ==
    [][timerFired => conn' /= "ready"]_vars

\* the transport Close frame has been written to the sink
HasClose(frames) == \E i \in DOMAIN frames : frames[i].t = "Close"

\* C15: once the driver has observed the close signal it writes no outbound
\* batch any more; it writes one transport Close, and then processes inbound
\* frames until the stream ends (result Ok) or an error occurs (result Err):
\* the drain ends in no other way.
C15_CloseThenDrain ==
    [][/\ (pc = "main" /\ pc' = "drain") => sink' = Append(sink, WsClose)
       /\ HasClose(sink) => sink' = sink
       /\ pc = "drain" => \/ pc' = "drain"
                          \/ pc' = "done" /\ result' \notin {"", "Panic"}]_vars

\* C17: the open signal is fulfilled at most once, and exactly once when an
\* engine Open has been received; the open sender is gone from then on, so no
\* later frame fulfils it again.
C17_OpenSignalOnce ==
    /\ openSent \in {0, 1}
    /\ openSent = 1 <=> state /= "Initial"
    /\ openSent = 1 <=> ~open

\* a second Open arrived after the signal was fulfilled, and was rejected
C17_Witness ==
    /\ openSent = 1
    /\ pc = "done" /\ result = "SecondOpen"

\* the frame f is one the decoder turns into an engine Ping
IsPing(f) == Decode(state, f).err = "" /\ Decode(state, f).pkt.p = "Ping"

\* every frame of the first n enqueued batches has been written to the sink
BatchWritten(n) == Len(enq) >= n /\ Len(Written) >= Len(Flatten(SubSeq(enq, 1, n)))

\* the driver is no longer in its main loop: it went on to the drain or ended
LeftMainLoop == pc \in {"drain", "done"} \/ (pc = "deadlock" /\ HasClose(sink))

\* C18: each engine Ping the Receiver processes puts exactly one batch, of the
\* single pong frame, on the outbound queue, and every pong batch enqueued is
\* eventually written to the sink unless the driver leaves its main loop.
C18_PongWritten ==
    /\ [][\A f \in InFrames :
             (Received(f) /\ IsPing(f))
             => (enq' = Append(enq, <<EncodePong>>) /\ queue' = Append(queue, <<EncodePong>>))]_vars
    /\ \A n \in 1..MaxBatches :
          (Len(enq) >= n /\ enq[n] = <<EncodePong>>) ~> (BatchWritten(n) \/ LeftMainLoop)

\* the step is an emit that attaches an ack callback, on namespace ns with id k
EmitWithAck(ns, k) ==
    /\ IsNone(emitPending) /\ IsSome(emitPending')
    /\ Get(emitPending')[1].sock.ns = NsOpt(ns)
    /\ Get(emitPending')[1].sock.id = Some(k)

\* C19: the emits of one Client that attach an ack callback get different ids:
\* each gets the current next_id, which only grows, every id in the table is
\* below it, and so set_ack never overwrites a callback that is still pending.
C19_AckIdsUnique ==
    /\ [](\A ns \in NS : IsSome(namespaces[ns]) => \A id \in Get(namespaces[ns]).acks : id < next_id)
    /\ [][/\ next_id' >= next_id
          /\ \A ns \in NS, k \in 0..MaxEmits :
                EmitWithAck(ns, k)
                => /\ k = next_id /\ next_id' = k + 1
                   /\ \A n2 \in NS : ~HasAck(namespaces, n2, k)
                   /\ HasAck(namespaces', ns, k)]_vars

\* two emits attached an ack callback; both are pending, under different ids
C19_Witness ==
    /\ next_id = 2
    /\ HasAck(namespaces, "/", 0)
    /\ HasAck(namespaces, "/", 1)

\* the callback registered in the table for (ns, ev), and the fallback of ns
RegisteredFor(tbl, ns, ev) ==
    IF IsSome(tbl[ns]) /\ \E e \in Get(tbl[ns]).events : e.ev = ev
    THEN {e.cb : e \in {x \in Get(tbl[ns]).events : x.ev = ev}}
    ELSE {}
FallbackOf(tbl, ns) == IF IsSome(tbl[ns]) THEN Get(tbl[ns]).fallback ELSE None

\* C20: get_event(ns, ev) is the callback registered for (ns, ev) when there
\* is one, else the fallback of that namespace, else None; right after
\* clear_event(ns, ev) it is the fallback of ns; and what is set or cleared on
\* one namespace changes no lookup on another.
C20_GetEventLookup ==
    /\ [](\A ns \in NS, ev \in TableEvents :
            LET reg == RegisteredFor(namespaces, ns, ev) IN
            /\ Cardinality(reg) <= 1
            /\ reg /= {} => \E cb \in reg : GetEvent(namespaces, ns, ev) = Some(cb)
            /\ reg = {} => GetEvent(namespaces, ns, ev) = FallbackOf(namespaces, ns))
    /\ [][\A ns \in NS, ev \in TableEvents :
            /\ ClearEvent(ns, ev) => GetEvent(namespaces', ns, ev) = FallbackOf(namespaces, ns)
            /\ \A cb \in TableCbs :
                 /\ SetEvent(ns, ev, cb) => GetEvent(namespaces', ns, ev) = Some(cb)
                 /\ (SetFallback(ns, cb) /\ RegisteredFor(namespaces, ns, ev) = {})
                       => GetEvent(namespaces', ns, ev) = Some(cb)
            /\ namespaces'[ns] = namespaces[ns]
                  => GetEvent(namespaces', ns, ev) = GetEvent(namespaces, ns, ev)]_vars

\* "/" has a fallback and its callback for msg was cleared, so msg goes to the
\* fallback; "/a" has a namespace entry without fallback, and its lookup is None
C20_Witness ==
    /\ IsSome(namespaces["/"]) /\ IsSome(namespaces["/a"])
    /\ RegisteredFor(namespaces, "/", "msg") = {}
    /\ RegisteredFor(namespaces, "/", "other") = {"c0"}
    /\ FallbackOf(namespaces, "/") = Some("c1")
    /\ FallbackOf(namespaces, "/a") = None
    /\ GetEvent(namespaces, "/", "msg") = Some("c1")
    /\ GetEvent(namespaces, "/a", "msg") = None

\* ------------------------------------------------------------------ packet builder properties
\* the serialize_arg call just made on the builder returned an error
ArgFailed(arg) ==
    /\ Len(pbArgs') = Len(pbArgs) + 1
    /\ pbArgs'[Len(pbArgs')].err /= ""
    /\ BuilderArg(arg)

\* the builder as first made, before any arg_ref
FreshBuilder ==
    LET n == Get(pbNew) IN
    IF n.kind = "Event" THEN NewEvent(TextOf("msg"), OptText(NsOpt(n.ns)), n.id, n.binary)
    ELSE NewAck(OptText(NsOpt(n.ns)), Get(n.id), n.binary)

\* the arguments of the calls that returned Ok, in order
OkArgs == LET ok == SelectSeq(pbArgs, LAMBDA c : c.err = "") IN [i \in DOMAIN ok |-> ok[i].arg]

\* the builder after the given calls alone
RECURSIVE Replayed(_, _)
Replayed(b, args) ==
    IF args = <<>> THEN b ELSE Replayed(SerializeArg(b, Head(args)).builder, Tail(args))

\* C21: serialize_arg is atomic: a call that fails leaves the builder's buffer,
\* attachment list and first flag as they were, so the frames finish() returns
\* are those of the calls that succeeded, made alone.
C21_SerializeArgAtomic ==
    /\ [][\A arg \in BuilderArgs : ArgFailed(arg) => pb' = pb]_vars
    /\ [](IsSome(pbFrames) => Get(pbFrames) = Finish(Replayed(FreshBuilder, OkArgs)))

\* the argument has a leaf that serialises as bytes
RECURSIVE HasBytes(_)
HasBytes(v) ==
    \/ v.r = "bytes"
    \/ v.r = "seq" /\ \E i \in DOMAIN v.items : HasBytes(v.items[i])

\* the JSON value an argument without byte leaves stands for
RECURSIVE JsonOf(_)
JsonOf(v) ==
    CASE v.r = "u8" -> JNum(v.n)
      [] v.r = "str" -> JStr(StrOf(v.s))
      [] v.r = "seq" -> JArr([i \in DOMAIN v.items |-> JsonOf(v.items[i])])

\* what the parser makes of the first frame finish() returned
ParsedHeader ==
    LET f == TextFrame(Get(pbFrames)[1].text) IN
    IF f.first = "4" THEN Deserialize(EMText(f.sock)) ELSE ResErr("InvalidMessage")

\* every arg_ref made returned Ok and no argument has a byte leaf
PlainArgs == \A i \in DOMAIN pbArgs : pbArgs[i].err = "" /\ ~HasBytes(pbArgs[i].arg)

\* C22: text round trip: the frame a text-mode builder returns for a kind,
\* namespace, optional id and arguments without byte leaves parses to a packet
\* of that kind, namespace and id with the same argument values (for an event,
\* after the event name).
C22_TextRoundTrip ==
    (IsSome(pbFrames) /\ ~Get(pbNew).binary /\ PlainArgs) =>
        LET n == Get(pbNew)
            r == ParsedHeader
            values == [i \in DOMAIN pbArgs |-> JsonOf(pbArgs[i].arg)]
        IN /\ r.err = "" /\ r.tag = "Packet"
           /\ r.packet.kind = n.kind
           /\ PacketNamespace(r.packet) = n.ns
           /\ r.packet.id = n.id
           /\ r.packet.args = (IF n.kind = "Event" THEN <<JStr("msg")>> ELSE <<>>) \o values

\* the byte leaves of an argument in the order they are serialised: a byte
\* slice, or a sequence of one or more u8
RECURSIVE ByteLeaves(_), ByteLeavesOf(_)
ByteLeavesOf(xs) == IF xs = <<>> THEN <<>> ELSE ByteLeaves(Head(xs)) \o ByteLeavesOf(Tail(xs))
ByteLeaves(v) ==
    IF v.r = "bytes" THEN <<v.s>>
    ELSE IF v.r = "seq" THEN
        IF v.items /= <<>> /\ \A i \in DOMAIN v.items : v.items[i].r = "u8"
        THEN <<[i \in DOMAIN v.items |-> v.items[i].n]>>
        ELSE ByteLeavesOf(v.items)
    ELSE <<>>

\* the attachment count a header frame declares: the number between the kind
\* digit and '-'
DeclaredAttachments(text) ==
    LET e == NumberEnd(text, 3) IN
    IF Len(text) >= 2 /\ text[1] = "4" /\ text[2] \in {"5", "6"} /\ e > 3 /\ e <= Len(text) /\ text[e] = "-"
    THEN Some(ParseU64(SubSeq(text, 3, e - 1)))
    ELSE None

\* C23: in binary mode finish() returns 1 + N frames: the text header frame,
\* which declares N attachments, then the N binary frames of the byte leaves of
\* the arguments serialised, in the order they were serialised (N may be 0).
C23_BinaryFrames ==
    (IsSome(pbFrames) /\ Get(pbNew).binary) =>
        LET fr == Get(pbFrames)
            leaves == ByteLeavesOf(OkArgs)
        IN /\ Len(fr) = 1 + Len(leaves)
           /\ fr[1].t = "Text"
           /\ DeclaredAttachments(fr[1].text) = Some(Len(leaves))
           /\ \A i \in DOMAIN leaves : fr[i + 1] = MsgBinary(<<BINARY_HEADER>> \o leaves[i])

\* two different attachments behind a header that declares two
C23_Witness ==
    /\ IsSome(pbFrames) /\ Get(pbNew).binary
    /\ Len(Get(pbFrames)) = 3
    /\ Get(pbFrames)[2] /= Get(pbFrames)[3]
    /\ DeclaredAttachments(Get(pbFrames)[1].text) = Some(2)

\* the index in a header frame where the namespace segment would start: after
\* '4', the kind digit and the attachment count with its '-'
NamespaceStart(text) ==
    LET e == NumberEnd(text, 3) IN
    IF e > 3 /\ e <= Len(text) /\ text[e] = "-" THEN e + 1 ELSE 3

ByteSeqs == {a \in BuilderArgs : a.r = "seq" /\ \A i \in DOMAIN a.items : a.items[i].r = "u8"}

\* arg_ref(arg) on a binary-mode builder has just returned
BinaryArgStep(arg) ==
    /\ IsSome(pb) /\ Get(pb).binary
    /\ Len(pbArgs') = Len(pbArgs) + 1
    /\ BuilderArg(arg)

\* C27: a sequence that stays in the Bytes state: with one or more elements,
\* all single bytes, it becomes exactly one binary attachment with those bytes
\* in order and one placeholder object (num the index of the attachment) in the
\* JSON; with no element it becomes the JSON [] and no attachment.  The same
\* holds of the sequences nested in a sequence.
C27_ByteSequence ==
    [][/\ \A arg \in ByteSeqs : BinaryArgStep(arg) =>
             LET b == Get(pb)
                 sep == IF b.first THEN <<"[">> ELSE <<",">>
                 bytes == [i \in DOMAIN arg.items |-> arg.items[i].n]
             IN /\ pbArgs'[Len(pbArgs')].err = ""
                /\ IF arg.items = <<>>
                   THEN /\ Get(pb').attachments = b.attachments
                        /\ Get(pb').buffer = b.buffer \o sep \o <<"[", "]">>
                   ELSE /\ Get(pb').attachments
                             = Append(b.attachments, MsgBinary(<<BINARY_HEADER>> \o bytes))
                        /\ Get(pb').buffer
                             = b.buffer \o sep \o PlaceholderText \o Decimal(Len(b.attachments)) \o <<"}">>
       /\ BinaryArgStep(RSeq(<<RSeq(<<RU8(7)>>), RSeq(<<>>)>>)) =>
             LET b == Get(pb)
                 sep == IF b.first THEN <<"[">> ELSE <<",">>
             IN /\ Get(pb').attachments = Append(b.attachments, MsgBinary(<<BINARY_HEADER, 7>>))
                /\ Get(pb').buffer
                     = b.buffer \o sep \o <<"[">> \o PlaceholderText \o Decimal(Len(b.attachments))
                       \o <<"}", ",", "[", "]", "]">>
      ]_vars

\* a binary builder that took a two-byte sequence, then an empty one
C27_Witness ==
    /\ IsSome(pb) /\ Get(pb).binary
    /\ Len(pbArgs) = 2
    /\ pbArgs[1].arg = RSeq(<<RU8(1), RU8(2)>>) /\ pbArgs[2].arg = RSeq(<<>>)
    /\ Get(pb).attachments = <<MsgBinary(<<4, 1, 2>>)>>

\* ------------------------------------------------------------------ parser boundary cases
\* the Text frame 42[]: the socket message 2[]
EmptyArgsEvent == TextFrame(<<"4", "2", "[", "]">>)

\* C25: the socket message 2[] is accepted by the parser: it yields an Event
\* packet with zero args, which is what the Receiver hands to process_packet.
C25_EmptyArgsAccepted ==
    [][(IsNone(in_progress) /\ Received(EmptyArgsEvent))
          => /\ IsSome(disp')
             /\ Get(disp').kind = "Event"
             /\ Get(disp').args = <<>>]_vars

\* the frame decodes to a binary engine message
IsBinaryMessage(f) ==
    LET d == Decode(state, f) IN
    d.err = "" /\ d.pkt.p = "Message" /\ d.pkt.m.t = "Binary"

\* C26: a binary engine message that arrives while no partial is pending is
\* rejected with NonAttachmentBinary, and the error ends the driver loop.
C26_BinaryWithoutPartial ==
    [][\A f \in InFrames :
          (IsNone(in_progress) /\ IsBinaryMessage(f) /\ Received(f))
          => /\ pc' = "done" /\ result' = "NonAttachmentBinary"
             /\ IsNone(disp')
             /\ IsNone(in_progress')]_vars

\* the driver has ended with NonAttachmentBinary
C26_Witness ==
    /\ pc = "done" /\ result = "NonAttachmentBinary"
    /\ state = "Active" /\ IsNone(in_progress)

\* ------------------------------------------------------------------ resolving placeholders
\* deserialize into T reaches the placeholders of the argument: T is Value, or
\* T is bytes and the argument is itself the placeholder
Reaches(r) == r.target = "Value" \/ r.arg.j = "ph"

Resolved(w) == pollResult[w] \in {"Ok", "Err"}

\* set_state has returned: every WrappedWaker sent in time was visited
SetterFinished == spc \in {"set_end", "gone"}

\* the poll of w returned Pending and w is not being polled
Parked(w) == w \in created /\ wpc[w] = "idle" /\ pollResult[w] = "Pending"

\* no poll is running and no Waiter is left with Pending: every Waiter that
\* was polled has resolved
Settled == \A w \in WaiterIds : wpc[w] = "idle" /\ (pollResult[w] = "NotPolled" \/ Resolved(w))

\* C29: no lost wake-up.  Once set_state has returned, a Waiter whose last poll
\* returned Pending had the waker of that poll woken (a poll that was not
\* woken saw the final state and resolved), set_state never finds an empty
\* WrappedWaker, and so, when the threads are scheduled, every Waiter that was
\* polled resolves once set or drop was called.
C29_NoLostWakeup ==
    /\ [](SetterFinished => \A w \in WaiterIds : Parked(w) => WakerOf(w) \in woken)
    /\ [](spc /= "panicked")
    /\ (called /= "none") ~> Settled

\* a clone was polled twice, the second time with a new waker, which set_state
\* woke, and it resolved
C29_Witness ==
    /\ called = "set"
    /\ created = {1, 2}
    /\ <<2, 2>> \in woken
    /\ pollResult[2] = "Ok"
    /\ spc = "gone"

\* C30: the state is written once.  After set a Waiter or clone never resolves
\* to Err and a poll that begins after the store returns Ok at once, also
\* after the Setter value was dropped at the end of set; after a drop without
\* set no Waiter resolves to Ok and a poll that begins after the store returns
\* Err; the state, once Set or Dropped, does not change.
C30_WrittenOnce ==
    /\ [](\A w \in WaiterIds :
            /\ called = "set" => pollResult[w] /= "Err"
            /\ called = "drop" => pollResult[w] /= "Ok"
            /\ called = "none" => ~Resolved(w))
    /\ [](called = "set" => fState = "Set")
    /\ [](called = "drop" => fState = "Dropped")
    /\ [][\A w \in WaiterIds :
            (called /= "none" /\ wpc[w] = "idle" /\ pollResult'[w] /= pollResult[w])
            => /\ wpc'[w] = "idle"
               /\ pollResult'[w] = IF called = "set" THEN "Ok" ELSE "Err"]_vars

\* after set, and after the Setter value was dropped, a Waiter and a clone first
\* polled after the set both resolved to Ok
C30_Witness ==
    /\ called = "set"
    /\ spc = "gone"
    /\ IsNone(setter_i)
    /\ created = {1, 2}
    /\ \A w \in created : pollResult[w] = "Ok"
    /\ waiter[2] = None

\* ------------------------------------------------------------------ header validation
\* C31: a packet that was dispatched with the kind digit 2 or 3 had no
\* attachment count in its header: a count on an Event or Ack header, also the
\* count 0, makes the parser reject the message.
C31_NoCountOnPlainKinds ==
    IsSome(disp) =>
        (Get(disp).message.kind \in {"2", "3"} => IsNone(Get(disp).message.att))

\* C32: a partial is pending only for a header that passes the validation of
\* deserialize_event: its args are present, and its id if it is a BinaryAck.
\* A header that fails it is rejected when it is parsed and no frame is taken
\* for its attachment.
C32_PartialIsValidated ==
    IsSome(in_progress) =>
        LET parse == Get(in_progress).partial
        IN /\ parse.args /= <<>>
           /\ parse.kind = "BinaryAck" => IsSome(parse.id)

\* ------------------------------------------------------------------ poisoned sequences
\* the sequences that start with single bytes and hold an element that is not
\* one, and no byte slice
MixedSeqs ==
    {a \in BuilderArgs : /\ a.r = "seq" /\ a.items /= <<>> /\ a.items[1].r = "u8"
                         /\ \E i \in DOMAIN a.items : a.items[i].r = "str"
                         /\ \A i \in DOMAIN a.items : a.items[i].r \in {"u8", "str"}}

AckIdsIn(fs) ==
    {Get(fs[i].sock.id) : i \in {j \in DOMAIN fs : /\ fs[j].t = "Text" /\ fs[j].sock.re
                                                   /\ fs[j].sock.kind \in {"2", "5"}
                                                   /\ IsSome(fs[j].sock.id)}}

\* C34: send registers the ack callback before it puts the frames on the
\* queue.  For every event with an ack id that is on the queue or beyond, the
\* callback is in the table unless an Ack already invoked it; so the first Ack
\* for the id of an event that was written to the sink invokes the callback
\* and is not an UnexpectedAck.
C34_AckRegisteredBeforeSend ==
    /\ [](\A k \in AckIdsIn(Flatten(enq)) :
            HasAck(namespaces, "/", k) \/ ackCalls[<<"/", k>>] > 0)
    /\ [][\A k \in AckIdsIn(sink) :
            (ackCalls[<<"/", k>>] = 0 /\ state = "Active" /\ Received(AckText(None, k)))
            => /\ IsSome(callback') /\ Get(callback').kind = "ack"
               /\ ackCalls'[<<"/", k>>] = 1
               /\ result' /= "UnexpectedAck"]_vars

\* the event with the ack id 0 was written to the sink and the peer's Ack for
\* it is in its callback
C34_Witness ==
    /\ 0 \in AckIdsIn(sink)
    /\ IsSome(callback) /\ Get(callback).kind = "ack" /\ Get(callback).id = Some(0)
    /\ ackCalls[<<"/", 0>>] = 1
    /\ pc = "main"

\* ------------------------------------------------------------------ close and the outbound queue
\* The whole client under fair scheduling: select! chooses among its ready
\* arms pseudo-randomly, so the outbound arm and the close arm are each taken
\* when ready again and again; a write to the sink completes, a send that built
\* its frames enqueues them, and a callback that can return does.
SpecFair ==
    /\ Init /\ [][Next]_vars
    /\ SF_vars(TakeBatch)
    /\ SF_vars(CloseObserved)
    /\ WF_vars(SendFrame)
    /\ WF_vars(EmitEnqueue)
    /\ WF_vars(CallbackReturn("plain"))

\* C35: a batch that was on the outbound queue before the close signal was
\* sent is written to the sink before the driver sends the transport Close:
\* if the n-th batch was enqueued while no close was signalled, then whenever
\* the Close is in the sink the first n batches have been written.
C35_QueuedBeforeCloseWritten ==
    \A n \in 1..MaxBatches :
        [](((~closeSig) /\ Len(enq) >= n) => [](HasClose(sink) => BatchWritten(n)))

\* ------------------------------------------------------------------ the pending partial
\* C36: between two inbound frames a pending partial holds fewer attachments
\* than its header declared, and at least none; so the frame that completes it
\* hands deserialize_partial exactly the declared number, and the assembly of
\* a packet never ends in InvalidAttachmentCount.
C36_PartialBelowDeclared ==
    /\ [](IsSome(in_progress) =>
            Len(Get(in_progress).attachments) < Get(Get(in_progress).partial.attachments))
    /\ [][(IsSome(in_progress) /\ in_progress' /= in_progress) =>
            /\ result' /= "InvalidAttachmentCount"
            /\ IsNone(in_progress')
               => Len(Get(in_progress).attachments) + 1 = Get(Get(in_progress).partial.attachments)]_vars

\* one of the two attachments a header declared has been collected
C36_Witness ==
    /\ IsSome(in_progress)
    /\ Get(in_progress).partial.attachments = Some(2)
    /\ Len(Get(in_progress).attachments) = 1
    /\ pc = "main"

\* ------------------------------------------------------------------ frames between a header and its attachments
\* engine Ping and Pong, and the transport's Ping, Pong and Close
ControlFrames ==
    { WsText("2", FALSE, NoMatch), WsText("3", FALSE, NoMatch), WsPing, WsPong, WsClose }

EngineErrors ==
    {"InvalidMessage", "WrongMessageType", "MessageBeforeOpen", "MessageAfterClose",
     "SecondOpen", "JsonError"}

\* C38: a decode that returns an error leaves the lifecycle state of the
\* decoder as it was: for every frame, in the state the decoder is in, and in
\* the step of the driver that ends with such an error.  After an Open whose
\* JSON did not parse the decoder is Initial, and decode of a valid Open in
\* that state returns the Open packet and makes the decoder Active.
C38_DecodeErrorKeepsState ==
    /\ [](\A f \in InFrames : Decode(state, f).err /= "" => Decode(state, f).state = state)
    /\ [][(result = "" /\ result' \in EngineErrors) => state' = state]_vars
    /\ [](result = "JsonError" =>
            /\ state = "Initial"
            /\ Decode(state, OpenOk) = DecodeOk(EPacket("Open"), "Active"))

\* an Open whose JSON does not parse was the first frame
C38_Witness ==
    /\ pc = "done" /\ result = "JsonError"
    /\ state = "Initial"
    /\ open /\ openSent = 0

\* ------------------------------------------------------------------ events without a callback
\* the frames that can complete an Event packet: event headers and attachments
EventEndFrames ==
    {f \in InFrames : \/ f.t = "Binary"
                      \/ f.t = "Text" /\ f.first = "4" /\ f.sock.re /\ f.sock.kind \in {"2", "5"}}

\* the frame f, processed now, hands process_packet an Event whose name has
\* neither a callback nor a fallback in its namespace
UnclaimedEvent(f) ==
    LET o == ProcessWebsocketPacket(state, in_progress, open, f) IN
    /\ o.err = "" /\ IsSome(o.packet)
    /\ LET packet == Get(o.packet) IN
       /\ packet.kind = "Event"
       /\ packet.args /= <<>> /\ packet.args[1].j = "str"
       /\ IsNone(GetEvent(namespaces, PacketNamespace(packet), packet.args[1].s))

\* C39: an Event that no callback and no fallback of its namespace claims is
\* dropped without an error: the driver stays in its loop with no result, no
\* callback runs, the callback table is as before, and nothing is put on the
\* outbound queue, with or without an id on the event.
C39_UnclaimedEventDropped ==
    [][\A f \in EventEndFrames :
          (AtSelect /\ IsSome(disp') /\ UnclaimedEvent(f) /\ Received(f))
          => /\ pc' = pc /\ result' = result
             /\ IsNone(callback') /\ lock' = lock
             /\ namespaces' = namespaces
             /\ queue' = queue /\ enq' = enq /\ heldAcks' = heldAcks]_vars

\* an event with the id 1 on /a was dispatched while /a had no namespace
\* entry, and the driver is in its loop
C39_Witness ==
    /\ IsSome(disp) /\ Get(disp).kind = "Event"
    /\ Get(disp).namespace = Some("/a") /\ Get(disp).id = Some(1)
    /\ IsNone(namespaces["/a"])
    /\ IsNone(callback)
    /\ pc = "main" /\ result = ""
    /\ enq = <<>>

\* ------------------------------------------------------------------ the senders of the outbound channel
\* Connection::sender: one more clone of Connection.send, from the Connection
\* or from a clone of it.
CloneSender ==
    /\ conn = "ready"
    /\ ~dropped \/ clones > 0
    /\ clones < MaxSenders
    /\ clones' = clones + 1
    /\ UNCHANGED <<driverVars, newVars, closeVars, builderVars, resolved, flagVars, dropped>>

\* The user drops a sender that sender() returned.
DropSender ==
    /\ clones > 0
    /\ clones' = clones - 1
    /\ UNCHANGED <<driverVars, newVars, closeVars, builderVars, resolved, flagVars, dropped>>

\* The user drops the Connection: its fields go, the RemoteHandle and the
\* close sender when close() has not taken them, and Connection.send.
DropConnection ==
    /\ conn = "ready" /\ ~dropped
    /\ closeSig => closeRes /= ""
    /\ dropped' = TRUE
    /\ UNCHANGED <<driverVars, newVars, closeVars, builderVars, resolved, flagVars, clones>>

\* The RemoteHandle was dropped with the Connection: at its next poll the
\* spawned Remote sees the handle gone and ends without polling the driver
\* again; the Receiver goes with it.  Until that poll the driver runs on.
TaskCancelled ==
    /\ dropped /\ ~closeSig
    /\ pc \in {"main", "drain"} /\ IsNone(callback)
    /\ pc' = "done" /\ result' = "Cancelled"
    /\ sending' = <<>>
    /\ UNCHANGED <<state, in_progress, open, openSent, namespaces, lock, poisoned, queue, sink,
                   enq, callback, closeSig, next_id, emitPending, heldAcks, disp, ackCalls>>
    /\ UNCHANGED <<conn, timerFired, closeCalls, closeRes, closeLate, libVars>>

\* A peer that opens, pings and sends an event with an id; a user who keeps or
\* answers the AckBuilder, clones and drops senders, closes or drops the
\* Connection.  Every batch comes from the Receiver's own sender or from an
\* AckBuilder's clone of it.
SenderFrames == { OpenOk, WsText("2", FALSE, NoMatch), Ev(None, Some(1), <<JStr("msg")>>) }

NextSenders ==
    \/ \E f \in SenderFrames : RecvFrame(f)
    \/ RecvEnd
    \/ \E how \in {"plain", "ack", "hold"} : CallbackReturn(how)
    \/ TakeBatch
    \/ SendFrame
    \/ CloseObserved
    \/ UserClose
    \/ CloseReturn
    \/ HandshakeDone
    \/ NewReturns
    \/ \E ev \in EventNames, cb \in CbIds : SetEvent("/", ev, cb)
    \/ \E a \in heldAcks : AckSend(a)
    \/ CloneSender
    \/ DropSender
    \/ DropConnection
    \/ TaskCancelled

SpecSenders == Init /\ [][NextSenders]_vars

\* the user holds no sender of the outbound channel
NoUserSender == dropped /\ clones = 0 /\ heldAcks = {}

\* C40: the outbound arm never panics with "Sending stream closed
\* unexpectedly": while the driver task has not ended, send_rx.next() does not
\* yield None, whatever senders the user has dropped, the Connection included.
C40_SendPanicUnreachable ==
    /\ result /= "SendStreamClosed"
    /\ (Spawned /\ pc /= "done") =>
           LET r == SendRxNext(queue, SenderCount) IN r.ready => IsSome(r.item)

\* the user has dropped the Connection and every other sender, and the driver
\* then took a batch off the channel in its main loop
C40_Witness ==
    /\ NoUserSender
    /\ pc = "main" /\ sending /= <<>>
    /\ queue = <<>>

====
